---- MODULE Spec2Model ----
(***************************************************************************)
(* Model of the photo indexing engine (lib/scanner.ts: PhotoScanner) and   *)
(* of the story selection engine (lib/stories.ts: StoryGenerator) of       *)
(* sy-photos.                                                              *)
(*                                                                         *)
(* Strings that the code computes on (paths, ids) are sequences of         *)
(* one-character strings, so that join/normalize, String.replace and       *)
(* base64url are computed as the runtime computes them.  JavaScript Maps   *)
(* are sequences of entries in insertion order.  An optional property is   *)
(* None (undefined) or Some(v).  Dates are whole hours since               *)
(* 1970-01-01T00:00 in a zone without daylight saving.                     *)
(***************************************************************************)
EXTENDS Integers, Sequences, FiniteSets, TLC

\* an optional (possibly undefined) value: None, or Some(v)
None == <<>>
Some(v) == <<v>>
IsSome(o) == o # <<>>
Val(o) == o[1]

\* ------------------------------------------------------------------------
\* Generic sequence helpers
\* ------------------------------------------------------------------------
Range(s) == {s[i] : i \in 1..Len(s)}

\* ------------------------------------------------------------------------
\* Strings and paths (node:path posix join / normalize)
\* ------------------------------------------------------------------------
Slash == "/"

\* split a string at "/" and drop the empty segments
RECURSIVE SplitFrom(_, _, _)
SplitFrom(s, i, cur) ==
    IF i > Len(s) THEN (IF cur = <<>> THEN <<>> ELSE <<cur>>)
    ELSE IF s[i] = Slash
         THEN (IF cur = <<>> THEN <<>> ELSE <<cur>>) \o SplitFrom(s, i + 1, <<>>)
         ELSE SplitFrom(s, i + 1, Append(cur, s[i]))

Split(s) == SplitFrom(s, 1, <<>>)

Dot == <<".">>
DotDot == <<".", ".">>

\* normalizeString: resolve "." and ".." segments
RECURSIVE NormalizeSegs(_, _, _)
NormalizeSegs(segs, acc, allowAboveRoot) ==
    IF segs = <<>> THEN acc
    ELSE LET sg == Head(segs) rest == Tail(segs) IN
         IF sg = Dot THEN NormalizeSegs(rest, acc, allowAboveRoot)
         ELSE IF sg = DotDot
              THEN IF acc # <<>> /\ acc[Len(acc)] # DotDot
                   THEN NormalizeSegs(rest, SubSeq(acc, 1, Len(acc) - 1), allowAboveRoot)
                   ELSE IF allowAboveRoot
                        THEN NormalizeSegs(rest, Append(acc, DotDot), allowAboveRoot)
                        ELSE NormalizeSegs(rest, acc, allowAboveRoot)
              ELSE NormalizeSegs(rest, Append(acc, sg), allowAboveRoot)

RECURSIVE JoinSegs(_)
JoinSegs(segs) ==
    IF segs = <<>> THEN <<>>
    ELSE IF Len(segs) = 1 THEN segs[1]
         ELSE segs[1] \o <<Slash>> \o JoinSegs(Tail(segs))

\* path.normalize
Normalize(p) ==
    IF p = <<>> THEN Dot
    ELSE LET isAbsolute == p[1] = Slash
             trailing   == p[Len(p)] = Slash
             body       == JoinSegs(NormalizeSegs(Split(p), <<>>, ~isAbsolute))
         IN IF body = <<>>
            THEN (IF isAbsolute THEN <<Slash>>
                  ELSE IF trailing THEN <<".", Slash>> ELSE Dot)
            ELSE (IF isAbsolute THEN <<Slash>> ELSE <<>>) \o body
                 \o (IF trailing THEN <<Slash>> ELSE <<>>)

\* path.join(a, b): the non-empty arguments joined by "/", then normalized
join(a, b) ==
    IF a = <<>> /\ b = <<>> THEN Dot
    ELSE IF a = <<>> THEN Normalize(b)
    ELSE IF b = <<>> THEN Normalize(a)
    ELSE Normalize(a \o <<Slash>> \o b)

\* String.prototype.replace(pattern, "") with a string pattern: the first
\* occurrence of the pattern is removed, wherever it is
IndexOf(s, pat) ==
    LET hits == {i \in 1..(Len(s) - Len(pat) + 1) : SubSeq(s, i, i + Len(pat) - 1) = pat}
    IN IF hits = {} THEN 0 ELSE CHOOSE i \in hits : \A j \in hits : i <= j

ReplaceFirst(s, pat) ==
    LET i == IndexOf(s, pat)
    IN IF i = 0 THEN s
       ELSE SubSeq(s, 1, i - 1) \o SubSeq(s, i + Len(pat), Len(s))

\* UTF-8 code of the characters that occur in the modelled paths and names
CharCode(c) ==
    CASE c = "/" -> 47
      [] c = "." -> 46
      [] c = "T" -> 84
      [] c = "a" -> 97
      [] c = "b" -> 98
      [] c = "c" -> 99
      [] c = "d" -> 100
      [] c = "g" -> 103
      [] c = "j" -> 106
      [] c = "m" -> 109
      [] c = "p" -> 112
      [] c = "A" -> 65
      [] c = "B" -> 66
      [] c = "L" -> 76
      [] c = "C" -> 67
      [] c = "U" -> 85
      [] c = "J" -> 74
      [] c = "P" -> 80
      [] c = "G" -> 71
      [] c = "D" -> 68
      [] c = "h" -> 104
      [] c = "i" -> 105
      [] c = "e" -> 101
      [] c = "l" -> 108
      [] c = "r" -> 114
      [] c = "v" -> 118
      [] c = "n" -> 110
      [] c = "t" -> 116
      [] c = "x" -> 120
      [] c = "4" -> 52
      [] c = "@" -> 64

B64Alphabet ==
    << "A","B","C","D","E","F","G","H","I","J","K","L","M","N","O","P",
       "Q","R","S","T","U","V","W","X","Y","Z","a","b","c","d","e","f",
       "g","h","i","j","k","l","m","n","o","p","q","r","s","t","u","v",
       "w","x","y","z","0","1","2","3","4","5","6","7","8","9","-","_" >>

B64(n) == B64Alphabet[n + 1]

\* Buffer.from(s).toString("base64url"): 3 bytes -> 4 sextets, no padding
RECURSIVE Base64Bytes(_)
Base64Bytes(bs) ==
    IF bs = <<>> THEN <<>>
    ELSE IF Len(bs) = 1
         THEN << B64(bs[1] \div 4), B64((bs[1] % 4) * 16) >>
    ELSE IF Len(bs) = 2
         THEN << B64(bs[1] \div 4),
                 B64((bs[1] % 4) * 16 + bs[2] \div 16),
                 B64((bs[2] % 16) * 4) >>
    ELSE << B64(bs[1] \div 4),
            B64((bs[1] % 4) * 16 + bs[2] \div 16),
            B64((bs[2] % 16) * 4 + bs[3] \div 64),
            B64(bs[3] % 64) >> \o Base64Bytes(SubSeq(bs, 4, Len(bs)))

base64url(s) == Base64Bytes([i \in 1..Len(s) |-> CharCode(s[i])])

\* PhotoScanner.generateId
generateId(root, filePath) == base64url(ReplaceFirst(filePath, root))

\* ------------------------------------------------------------------------
\* JavaScript Map: entries [k, v] in insertion order
\* ------------------------------------------------------------------------
MapHas(m, k) == \E i \in 1..Len(m) : m[i].k = k

MapIdx(m, k) == CHOOSE i \in 1..Len(m) : m[i].k = k

MapGet(m, k) == IF MapHas(m, k) THEN Some(m[MapIdx(m, k)].v) ELSE None

MapSet(m, k, v) ==
    IF MapHas(m, k) THEN [m EXCEPT ![MapIdx(m, k)] = [k |-> k, v |-> v]]
    ELSE Append(m, [k |-> k, v |-> v])

MapValues(m) == [i \in 1..Len(m) |-> m[i].v]

\* JavaScript truthiness of an optional number: undefined and 0 are falsy
TruthyNum(o) == IsSome(o) /\ Val(o) # 0

\* ------------------------------------------------------------------------
\* Bounds and program constants
\* ------------------------------------------------------------------------
CACHE_VERSION == 1

\* largest file modification time (ms) the environment produces
MaxMtime == 2
\* scans started in one run (startup scans and /api/rescan)
MaxScans == 3
\* changes the environment makes to the corpus in one run
MaxEnv == 2
\* process restarts in one run
MaxRestarts == 1
\* failing stat or snapshot write operations in one run
MaxFaults == 1

MsPerHour == 60 * 60 * 1000

\* ------------------------------------------------------------------------
\* The corpus: a.jpg, the directory T, which holds @eaDir, b.jpg and c.jpg,
\* and d.jpg
\* ------------------------------------------------------------------------
RootAbs == <<"/", "d", "/", "p">>
RootRel == <<".", "/", "p">>
RootMnt == <<"/", "m", "/", "p">>
RootBare == <<"p">>
RootSlash == <<"/", "d", "/", "p", "/">>

\* root strings a scanner is constructed with (PHOTOS_DIR); all of them
\* name the same corpus directory
Roots == {RootAbs, RootRel}

\* the files that come and go in the scan specification
FileKeys == {"fa", "fb"}

\* every image file of the corpus that the walk can reach; all but a.jpg
\* and b.jpg exist in some of the specifications only
AllFiles == {"fa", "fb", "fc", "fd", "fu"}

\* the other entries that are not directories: a video, a text file, a
\* hidden image, an entry l.jpg that is not a regular file (a symbolic
\* link), an image in the hidden directory .h and a thumbnail in T/@eaDir;
\* they exist in some of the specifications only
OtherFiles == {"fv", "fn", "fh", "fl", "fi", "fe"}

FileEntries == AllFiles \cup OtherFiles

EntryName(e) ==
    CASE e = "fa" -> <<"a", ".", "j", "p", "g">>
      [] e = "fb" -> <<"b", ".", "j", "p", "g">>
      [] e = "fc" -> <<"c", ".", "j", "p", "g">>
      [] e = "fd" -> <<"d", ".", "j", "p", "g">>
      [] e = "fu" -> <<"U", ".", "J", "P", "G">>
      [] e = "fv" -> <<"v", ".", "m", "p", "4">>
      [] e = "fn" -> <<"n", ".", "t", "x", "t">>
      [] e = "fh" -> <<".", "h", ".", "j", "p", "g">>
      [] e = "fl" -> <<"l", ".", "j", "p", "g">>
      [] e = "fi" -> <<"i", ".", "j", "p", "g">>
      [] e = "fe" -> <<"e", ".", "j", "p", "g">>
      [] e = "dT" -> <<"T">>
      [] e = "dE" -> <<"@", "e", "a", "D", "i", "r">>
      [] e = "dH" -> <<".", "h">>

\* Dirent.isDirectory() and Dirent.isFile()
IsDirEntry(e) == e \in {"dT", "dE", "dH"}
IsFileEntry(e) == e \in FileEntries \ {"fl"}

\* directory entries in readdir order; "root" is the corpus root
DirEntries(d) ==
    CASE d = "root" -> <<"fa", "dT", "fd", "fv", "fn", "fh", "fu", "fl", "dH">>
      [] d = "dT" -> <<"dE", "fb", "fc">>
      [] d = "dE" -> <<"fe">>
      [] d = "dH" -> <<"fi">>

\* the directory that lists the entry
ParentOf(e) == CHOOSE d \in {"root", "dT", "dE", "dH"} : e \in Range(DirEntries(d))

\* names from the corpus root down to the entry
RECURSIVE RelNames(_)
RelNames(e) == IF e = "root" THEN <<>> ELSE Append(RelNames(ParentOf(e)), EntryName(e))

\* contents of an image file and of its sidecar directory
ExifPlain == [ok |-> TRUE, date |-> None, lat |-> None, lon |-> None]

SideMissing == [state |-> "missing", face |-> None, geo |-> None, takenAt |-> None]

SideAL ==
    [state |-> "ok", face |-> Some(<<Some("A")>>),
     geo |-> Some([city |-> Some("L"), country |-> None, lat |-> Some(1), lon |-> Some(1)]),
     takenAt |-> None]

SideAB ==
    [state |-> "ok", face |-> Some(<<Some("A"), Some("B")>>), geo |-> None,
     takenAt |-> None]

Contents ==
    { [exif |-> ExifPlain, sidecars |-> <<SideMissing, SideMissing>>],
      [exif |-> ExifPlain, sidecars |-> <<SideAL, SideMissing>>],
      [exif |-> ExifPlain, sidecars |-> <<SideAB, SideMissing>>] }

\* ------------------------------------------------------------------------
\* PhotoScanner: pure parts
\* ------------------------------------------------------------------------
PHOTO_EXTENSIONS ==
    { <<".", "j", "p", "g">>, <<".", "j", "p", "e", "g">>, <<".", "p", "n", "g">>,
      <<".", "h", "e", "i", "c">>, <<".", "h", "e", "i", "f">>,
      <<".", "w", "e", "b", "p">>, <<".", "g", "i", "f">>, <<".", "b", "m", "p">>,
      <<".", "t", "i", "f", "f">> }

VIDEO_EXTENSIONS ==
    { <<".", "m", "p", "4">>, <<".", "m", "o", "v">>, <<".", "a", "v", "i">>,
      <<".", "m", "k", "v">>, <<".", "w", "e", "b", "m">> }

\* path.basename
basename(p) == LET segs == Split(p) IN IF segs = <<>> THEN <<>> ELSE segs[Len(segs)]

\* path.extname: from the last "." of the name, "" when there is none or
\* when the only one is the first character
extname(name) ==
    LET dots == {i \in 1..Len(name) : name[i] = "."}
        last == CHOOSE i \in dots : \A j \in dots : j <= i
    IN IF dots = {} THEN <<>>
       ELSE IF last = 1 THEN <<>> ELSE SubSeq(name, last, Len(name))

LowerChar(c) ==
    CASE c = "T" -> "t" [] c = "A" -> "a" [] c = "B" -> "b" [] c = "D" -> "d"
      [] c = "L" -> "l" [] c = "U" -> "u" [] c = "J" -> "j" [] c = "P" -> "p"
      [] c = "G" -> "g" [] OTHER -> c

toLowerCase(s) == [i \in 1..Len(s) |-> LowerChar(s[i])]

\* a walk that skips the sidecar directories only
SkippedName_eaDirOnly(name) == name = EntryName("dE")

\* entries the walk skips (scanDirectory, line 134)
SkippedName(name) == name = EntryName("dE") \/ (name # <<>> /\ name[1] = ".")

\* new Date(ms), in whole hours
DateOfMs(ms) == ms \div MsPerHour

\* Date.toISOString and new Date(isoString)
toISOString(t) == <<"iso", t>>
DateOfISO(s) == s[2]

\* the record processPhoto starts from (lines 181-186 and 210-215)
BasicPhoto(id, filePath, albumName) ==
    [id |-> id, path |-> filePath, filename |-> basename(filePath), album |-> albumName,
     takenAt |-> None, latitude |-> None, longitude |-> None, locationName |-> None,
     people |-> None]

\* extractExifData: on a read failure the capture time is the file's mtime
extractExifData(file, photo) ==
    IF ~file.exif.ok THEN [photo EXCEPT !.takenAt = Some(DateOfMs(file.mtime))]
    ELSE LET p1 == IF IsSome(file.exif.date)
                   THEN [photo EXCEPT !.takenAt = file.exif.date] ELSE photo
         IN IF TruthyNum(file.exif.lat) /\ TruthyNum(file.exif.lon)
            THEN [p1 EXCEPT !.latitude = file.exif.lat, !.longitude = file.exif.lon]
            ELSE p1

\* names of the faces that carry a non-empty name
RECURSIVE FaceNames(_)
FaceNames(face) ==
    IF face = <<>> THEN <<>>
    ELSE (IF IsSome(Head(face)) /\ Val(Head(face)) # "" THEN <<Val(Head(face))>> ELSE <<>>)
         \o FaceNames(Tail(face))

\* [city, country].filter(Boolean); the joined name is kept as its parts
GeoParts(geo) ==
    (IF IsSome(geo.city) /\ Val(geo.city) # "" THEN <<Val(geo.city)>> ELSE <<>>)
    \o (IF IsSome(geo.country) /\ Val(geo.country) # "" THEN <<Val(geo.country)>> ELSE <<>>)

\* the body of the candidate loop of extractSynologyMetadata for one parsed file
ApplySidecar(meta, photo) ==
    LET p1 == IF IsSome(meta.face) /\ Len(Val(meta.face)) > 0
              THEN [photo EXCEPT !.people = Some(FaceNames(Val(meta.face)))] ELSE photo
        p2 == IF IsSome(meta.geo) /\ GeoParts(Val(meta.geo)) # <<>>
              THEN [p1 EXCEPT !.locationName = Some(GeoParts(Val(meta.geo)))] ELSE p1
        p3 == IF IsSome(meta.geo) /\ TruthyNum(Val(meta.geo).lat) /\ TruthyNum(Val(meta.geo).lon)
              THEN [p2 EXCEPT !.latitude = Val(meta.geo).lat, !.longitude = Val(meta.geo).lon]
              ELSE p2
    IN IF TruthyNum(meta.takenAt) /\ ~IsSome(p3.takenAt)
       THEN [p3 EXCEPT !.takenAt = meta.takenAt] ELSE p3

RECURSIVE CandidateLoop(_, _)
\* the loop over the candidate files (lines 272-323), each in its own
\* try/catch: a candidate that is "missing" fails exists(); one that is
\* "unparsable" makes json() throw; a "nullDoc" is the JSON text null, so
\* that reading metadata.face throws before any field is set; a "badThumb"
\* has a thumbnail name that is not a string, so that join throws (line 316)
\* after the other fields were set. break is reached by an "ok" candidate
\* only; after a throw the empty catch goes on with the next candidate.
CandidateLoop(sidecars, photo) ==
    IF sidecars = <<>> THEN photo
    ELSE LET meta == Head(sidecars)
         IN CASE meta.state \in {"missing", "unparsable", "nullDoc"} ->
                     CandidateLoop(Tail(sidecars), photo)
              [] meta.state = "badThumb" ->
                     CandidateLoop(Tail(sidecars), ApplySidecar(meta, photo))
              [] meta.state = "ok" -> ApplySidecar(meta, photo)

\* extractSynologyMetadata over [SYNOPHOTO_METADATA.json, SYNO_PHOTO_METADATA.json]
extractSynologyMetadata(file, photo) == CandidateLoop(file.sidecars, photo)

\* addPersonPhoto
addPersonPhoto(people, personName, photo) ==
    IF MapHas(people, personName)
    THEN LET i == MapIdx(people, personName)
         IN [people EXCEPT ![i].v.photoCount = @ + 1]
    ELSE Append(people, [k |-> personName,
                         v |-> [id |-> base64url(<<personName>>), name |-> personName,
                                photoCount |-> 1, coverPhoto |-> photo.id]])

RECURSIVE AddPeople(_, _, _)
\* for (const personName of photo.people) addPersonPhoto(personName, photo)
AddPeople(people, names, photo) ==
    IF names = <<>> THEN people
    ELSE AddPeople(addPersonPhoto(people, Head(names), photo), Tail(names), photo)

\* addLocationPhoto
addLocationPhoto(locations, locationName, photo) ==
    IF MapHas(locations, locationName)
    THEN LET i == MapIdx(locations, locationName)
         IN [locations EXCEPT ![i].v.photoCount = @ + 1,
                              ![i].v.photos = Append(@, photo.id)]
    ELSE Append(locations, [k |-> locationName,
                            v |-> [name |-> locationName, latitude |-> Val(photo.latitude),
                                   longitude |-> Val(photo.longitude), photoCount |-> 1,
                                   photos |-> <<photo.id>>]])

\* the relationship updates shared by loadCache (80-89) and processPhoto (195-204)
IndexPeople(people, photo) ==
    IF IsSome(photo.people) THEN AddPeople(people, Val(photo.people), photo) ELSE people

HasLocation(photo) ==
    IsSome(photo.locationName) /\ TruthyNum(photo.latitude) /\ TruthyNum(photo.longitude)

IndexLocation(locations, photo) ==
    IF HasLocation(photo) THEN addLocationPhoto(locations, Val(photo.locationName), photo)
    ELSE locations


\* updateAlbum: summary of the photos whose album is albumName
MinOf(S) == CHOOSE x \in S : \A y \in S : x <= y
MaxOf(S) == CHOOSE x \in S : \A y \in S : y <= x

\* a summary that leaves the photos without capture time out of the album
updateAlbum_datedOnly(albums, photos, albumName, path) ==
    LET InAlbum(p) == p.album = Some(albumName) /\ IsSome(p.takenAt)
        members == SelectSeq(MapValues(photos), InAlbum)
        dates == {Val(members[i].takenAt) : i \in 1..Len(members)}
    IN IF Len(members) = 0 THEN albums
       ELSE MapSet(albums, albumName,
                [id |-> base64url(albumName), name |-> albumName, path |-> path,
                 coverPhoto |-> members[1].id, photoCount |-> Len(members),
                 dateRange |-> Some([start |-> MinOf(dates), end |-> MaxOf(dates)])])

updateAlbum(albums, photos, albumName, path) ==
    LET InAlbum(p) == p.album = Some(albumName)
        members == SelectSeq(MapValues(photos), InAlbum)
        dates == {Val(members[i].takenAt) : i \in {j \in 1..Len(members) : IsSome(members[j].takenAt)}}
    IN IF Len(members) = 0 THEN albums
       ELSE MapSet(albums, albumName,
                [id |-> base64url(albumName), name |-> albumName, path |-> path,
                 coverPhoto |-> members[1].id, photoCount |-> Len(members),
                 dateRange |-> IF dates # {}
                               THEN Some([start |-> MinOf(dates), end |-> MaxOf(dates)])
                               ELSE None])

\* the snapshot entry saveCache writes for one photo (lines 104-109)
ToCached(photo, mtimes) ==
    LET m == MapGet(mtimes, photo.path)
    IN [id |-> photo.id, path |-> photo.path, filename |-> photo.filename,
        album |-> photo.album,
        takenAt |-> IF IsSome(photo.takenAt) THEN Some(toISOString(Val(photo.takenAt))) ELSE None,
        latitude |-> photo.latitude, longitude |-> photo.longitude,
        locationName |-> photo.locationName, people |-> photo.people,
        mtime |-> IF TruthyNum(m) THEN Val(m) ELSE 0]

\* the Photo loadCache rebuilds from a snapshot entry (lines 71-75)
FromCached(c) ==
    [id |-> c.id, path |-> c.path, filename |-> c.filename, album |-> c.album,
     takenAt |-> IF IsSome(c.takenAt) THEN Some(DateOfISO(Val(c.takenAt))) ELSE None,
     latitude |-> c.latitude, longitude |-> c.longitude,
     locationName |-> c.locationName, people |-> c.people]

\* the in-memory index as one value
Index(ph, pe, lo, mt) == [photos |-> ph, people |-> pe, locations |-> lo, cachedMtimes |-> mt]

\* the cache file holds text that is not JSON: cacheFile.json() throws (line 57)
Corrupt == [corrupt |-> TRUE]
Unparsable(snap) == IsSome(snap) /\ "corrupt" \in DOMAIN Val(snap)

\* an entry of cache.photos whose value is null: reading cachedPhoto.path
\* throws (line 68)
NullEntry(id) == [k |-> id, damage |-> "null"]
Damaged(entry) == "damage" \in DOMAIN entry

RECURSIVE LoadEntries(_, _)
\* the loop of loadCache over Object.entries(cache.photos) (lines 67-90); the
\* catch of lines 94-96 ends it at the first entry that throws and keeps
\* what the entries before it put into the maps
LoadEntries(entries, ix) ==
    IF entries = <<>> \/ Damaged(Head(entries)) THEN ix
    ELSE LET id == Head(entries).k
             cachedPhoto == Head(entries).v
             photo == FromCached(cachedPhoto)
         IN LoadEntries(Tail(entries),
                Index(MapSet(ix.photos, id, photo),
                      IndexPeople(ix.people, photo),
                      IndexLocation(ix.locations, photo),
                      MapSet(ix.cachedMtimes, cachedPhoto.path, cachedPhoto.mtime)))

\* the snapshot passes the check of line 61
SnapshotUsable(cache, root) == cache.version = CACHE_VERSION /\ cache.photosRoot = root

\* how loadCache ends: "nofile", "mismatch", "loaded", or "failed" when it
\* ended in its catch
LoadOutcome(snap, root) ==
    IF ~IsSome(snap) THEN "nofile"
    ELSE IF Unparsable(snap) THEN "failed"
    ELSE IF ~SnapshotUsable(Val(snap), root) THEN "mismatch"
    ELSE IF \E i \in 1..Len(Val(snap).photos) : Damaged(Val(snap).photos[i]) THEN "failed"
    ELSE "loaded"

\* a load that goes over the entries of the snapshot a second time
loadCache_twice(snap, root, ix) ==
    IF LoadOutcome(snap, root) = "loaded"
    THEN LoadEntries(Val(snap).photos, LoadEntries(Val(snap).photos, ix))
    ELSE ix

\* loadCache (lines 49-97)
loadCache(snap, root, ix) ==
    IF IsSome(snap) /\ ~Unparsable(snap) /\ SnapshotUsable(Val(snap), root)
    THEN LoadEntries(Val(snap).photos, ix)
    ELSE ix

\* the snapshot saveCache writes
saveCache(root, photos, mtimes) ==
    [version |-> CACHE_VERSION, photosRoot |-> root,
     photos |-> [i \in 1..Len(photos) |-> [k |-> photos[i].k, v |-> ToCached(photos[i].v, mtimes)]]]

\* a test that trusts any recorded modification time
CacheHit_anyMtime(mtimes, photos, filePath, currentMtime, id) ==
    TruthyNum(MapGet(mtimes, filePath)) /\ MapHas(photos, id)

\* the test of line 171
CacheHit(mtimes, photos, filePath, currentMtime, id) ==
    LET cachedMtime == MapGet(mtimes, filePath)
    IN TruthyNum(cachedMtime) /\ Val(cachedMtime) = currentMtime /\ MapHas(photos, id)

\* processPhoto after a cache miss (lines 179-207)
ProcessMiss(ix, file, id, filePath, albumName) ==
    LET photo == extractSynologyMetadata(file,
                     extractExifData(file, BasicPhoto(id, filePath, albumName)))
    IN Index(MapSet(ix.photos, id, photo),
             IndexPeople(ix.people, photo),
             IndexLocation(ix.locations, photo),
             MapSet(ix.cachedMtimes, filePath, file.mtime))

\* ------------------------------------------------------------------------
\* State
\* ------------------------------------------------------------------------
VARIABLES
    fs,            \* the corpus: file key -> [present, mtime, exif, sidecars]
    snapshot,      \* the persisted cache file: None or Some(ScanCache)
    photosRoot,    \* PhotoScanner.photosRoot
    photos,        \* PhotoScanner.photos
    albums,        \* PhotoScanner.albums
    people,        \* PhotoScanner.people
    locations,     \* PhotoScanner.locations
    indexed,       \* PhotoScanner.indexed
    cachedMtimes,  \* PhotoScanner.cachedMtimes
    scanStats,     \* PhotoScanner.scanStats
    pc,            \* "boot", "walk", "save", "idle": position of scan()
    stack,         \* the active scanDirectory calls, innermost first
    last,          \* what the last step of the scanner did (observation)
    seen,          \* paths processPhoto was called on in the current/last scan
    startSummary,  \* summary of the index when the current/last scan started
    dirtyPrev,     \* corpus changed between the two latest scan starts
    dirtyCur,      \* corpus changed since the latest scan start
    budget,        \* steps taken against the bounds
    call,          \* arguments of the function under study
    ret,           \* its result
    cachedStories, \* the server's story batch (part_000 line 21)
    server,        \* [up: Bun.serve and the timer run, rescan: /api/rescan awaits scan()]
    lastBatch,     \* the batch generateMultipleStories returned last (observation)
    observed       \* what the last request or timer callback saw (observation)

scannerVars == <<photosRoot, photos, albums, people, locations, indexed, cachedMtimes,
                 scanStats, pc, stack>>
ghostVars == <<last, seen, startSummary, dirtyPrev, dirtyCur>>
serverVars == <<cachedStories, server, lastBatch, observed>>
vars == <<fs, snapshot, scannerVars, ghostVars, budget, call, ret, serverVars>>

\* the process before line 21: no batch, no server, no timer
ServerDown ==
    /\ cachedStories = <<>>
    /\ server = [up |-> FALSE, rescan |-> FALSE]
    /\ lastBatch = <<>>
    /\ observed = None

EmptyPath == <<>>

NoStep ==
    [op |-> "none", path |-> EmptyPath, id |-> EmptyPath, hit |-> FALSE, statOk |-> FALSE,
     hadEntry |-> FALSE, sameMtime |-> FALSE, hadId |-> FALSE, load |-> "none",
     loadChanged |-> FALSE, emptyBefore |-> FALSE, failedDirs |-> {}, album |-> None,
     albumWritten |-> FALSE, written |-> <<>>, saved |-> FALSE]

\* observation of a step of the current scan; the outcome of the scan's
\* loadCache, the directories it could not list and the directories whose
\* album summary it wrote stay visible until the next scan starts
Step(op) == [NoStep EXCEPT !.op = op, !.load = last.load, !.loadChanged = last.loadChanged,
                          !.failedDirs = last.failedDirs, !.written = last.written]

\* what C1 compares: photo ids, person counts, location counts and members
Summary ==
    [ids |-> {photos[i].k : i \in 1..Len(photos)},
     people |-> {<<people[i].k, people[i].v.photoCount>> : i \in 1..Len(people)},
     locations |-> {<<locations[i].k, locations[i].v.photoCount, locations[i].v.photos>> :
                        i \in 1..Len(locations)}]

File(e) == [present |-> fs[e].present, mtime |-> fs[e].mtime,
            exif |-> fs[e].content.exif, sidecars |-> fs[e].content.sidecars]

\* readdir: the entries of a directory that exist; the directories T and
\* T/@eaDir always do, .h does when its image does
ReadDir(d) ==
    LET Exists(e) == IF e = "dH" THEN fs["fi"].present
                     ELSE IsDirEntry(e) \/ fs[e].present
    IN SelectSeq(DirEntries(d), Exists)

\* a file that is not in the corpus
Absent == [present |-> FALSE, mtime |-> 1,
           content |-> [exif |-> ExifPlain, sidecars |-> <<SideMissing, SideMissing>>]]

\* a snapshot left behind by an older release of the program
StaleSnapshot ==
    LET path == join(RootAbs, EntryName("fa"))
        photo == [BasicPhoto(generateId(RootAbs, path), path, None) EXCEPT !.people = Some(<<"A">>)]
    IN [version |-> 0, photosRoot |-> RootAbs,
        photos |-> <<[k |-> photo.id, v |-> ToCached(photo, <<[k |-> path, v |-> 1]>>)]>>]

\* a freshly constructed PhotoScanner
Fresh(root) ==
    /\ photosRoot = root
    /\ photos = <<>>
    /\ albums = <<>>
    /\ people = <<>>
    /\ locations = <<>>
    /\ indexed = FALSE
    /\ cachedMtimes = <<>>
    /\ scanStats = [total |-> 0, cached |-> 0, scanned |-> 0]
    /\ pc = "boot"
    /\ stack = <<>>

Init ==
    /\ \E m \in 0..1 :
        fs = [f \in FileEntries |->
                 IF f \notin FileKeys THEN Absent
                 ELSE [present |-> TRUE,
                       mtime |-> IF f = "fa" THEN m ELSE 1,
                       content |-> [exif |-> ExifPlain,
                                    sidecars |-> <<IF f = "fa" THEN SideAL ELSE SideAB,
                                                   SideMissing>>]]]
    /\ snapshot \in {None, Some(StaleSnapshot)}
    /\ \E root \in Roots : Fresh(root)
    /\ last = NoStep
    /\ seen = {}
    /\ startSummary = None
    /\ dirtyPrev = FALSE
    /\ dirtyCur = FALSE
    /\ budget = [scans |-> 0, env |-> 0, restarts |-> 0, faults |-> 0]
    /\ call = None
    /\ ret = None
    /\ ServerDown

\* ------------------------------------------------------------------------
\* scan()
\* ------------------------------------------------------------------------
Top == Head(stack)
TopEntry == Head(Top.entries)
TopPath == join(Top.dir, EntryName(TopEntry))
AtEntry == pc = "walk" /\ stack # <<>> /\ Top.entries # <<>>
Advance == <<[Top EXCEPT !.entries = Tail(@)]>> \o Tail(stack)

\* the recursive call unwinds every pending scanDirectory call when the
\* error of the listing is not caught where it happened
Recurse_unwinding(frame, callers) ==
    IF frame.failed
    THEN <<frame>> \o [i \in 1..Len(callers) |-> [callers[i] EXCEPT !.entries = <<>>]]
    ELSE <<frame>> \o callers

\* the recursive call of line 140: the callers wait for it; its own try
\* (lines 127-156) keeps a failure away from them
Recurse(frame, callers) == <<frame>> \o callers

\* outcomes of an operation that can fail: TRUE is success
Outcomes == IF budget.faults < MaxFaults THEN BOOLEAN ELSE {TRUE}
Spend(ok) == [budget EXCEPT !.faults = @ + (IF ok THEN 0 ELSE 1)]

\* a scanDirectory call after its readdir (line 128): when the listing
\* failed, control is in the catch of lines 154-156 and the loop and the
\* album update are skipped
Frame(key, dir, albumName, listOk) ==
    [key |-> key, dir |-> dir, album |-> albumName,
     entries |-> IF listOk THEN ReadDir(key) ELSE <<>>, failed |-> ~listOk]

\* scan() up to the first readdir: loadCache, scanStats reset (lines 31-38, 128)
ScanBegin ==
    /\ budget.scans < MaxScans
    /\ LET before == Index(photos, people, locations, cachedMtimes)
           ix == loadCache(snapshot, photosRoot, before)
       IN /\ photos' = ix.photos
          /\ people' = ix.people
          /\ locations' = ix.locations
          /\ cachedMtimes' = ix.cachedMtimes
          /\ \E listOk \in Outcomes :
              /\ last' = [NoStep EXCEPT !.op = "loadCache",
                                        !.load = LoadOutcome(snapshot, photosRoot),
                                        !.loadChanged = (ix # before),
                                        !.emptyBefore = (before = Index(<<>>, <<>>, <<>>, <<>>)),
                                        !.failedDirs = IF listOk THEN {} ELSE {"root"}]
              /\ stack' = <<Frame("root", photosRoot, None, listOk)>>
              /\ budget' = [Spend(listOk) EXCEPT !.scans = @ + 1]
    /\ scanStats' = [total |-> 0, cached |-> 0, scanned |-> 0]
    /\ pc' = "walk"
    /\ seen' = {}
    /\ startSummary' = IF indexed THEN Some(Summary) ELSE None
    /\ dirtyPrev' = dirtyCur
    /\ dirtyCur' = FALSE
    /\ UNCHANGED <<fs, snapshot, photosRoot, albums, indexed, ret>>

\* scan() is called while no other call of it is running
ScanStartBody ==
    /\ pc \in {"boot", "idle"}
    /\ ScanBegin
    /\ call' = call

\* scan() is called: at startup (part_000 line 17) or by /api/rescan
ScanStart == ScanStartBody /\ UNCHANGED serverVars

\* scanDirectory skips @eaDir and dot entries (lines 134-136)
SkipEntry ==
    /\ AtEntry
    /\ SkippedName(EntryName(TopEntry))
    /\ stack' = Advance
    /\ last' = Step("skip")
    /\ UNCHANGED <<fs, snapshot, photosRoot, photos, albums, people, locations, indexed,
                   cachedMtimes, scanStats, pc, seen, startSummary, dirtyPrev, dirtyCur,
                   budget, call, ret, serverVars>>

\* scanDirectory recurses into a subdirectory (lines 138-141, 128)
EnterDirectory ==
    /\ AtEntry
    /\ ~SkippedName(EntryName(TopEntry))
    /\ IsDirEntry(TopEntry)
    /\ LET newAlbumName == IF IsSome(Top.album)
                           THEN Val(Top.album) \o <<Slash>> \o EntryName(TopEntry)
                           ELSE EntryName(TopEntry)
       IN \E listOk \in Outcomes :
              /\ stack' = Recurse(Frame(TopEntry, TopPath, Some(newAlbumName), listOk), Advance)
              /\ last' = [Step("enter") EXCEPT
                              !.failedDirs = @ \cup (IF listOk THEN {} ELSE {TopEntry})]
              /\ budget' = Spend(listOk)
    /\ UNCHANGED <<fs, snapshot, photosRoot, photos, albums, people, locations, indexed,
                   cachedMtimes, scanStats, pc, seen, startSummary, dirtyPrev, dirtyCur,
                   call, ret, serverVars>>

\* scanDirectory passes over an entry that is neither a directory nor a
\* regular file with an image extension (lines 142-147)
IgnoreEntry ==
    /\ AtEntry
    /\ ~SkippedName(EntryName(TopEntry))
    /\ ~IsDirEntry(TopEntry)
    /\ ~(IsFileEntry(TopEntry) /\ toLowerCase(extname(EntryName(TopEntry))) \in PHOTO_EXTENSIONS)
    /\ stack' = Advance
    /\ last' = Step("ignore")
    /\ UNCHANGED <<fs, snapshot, photosRoot, photos, albums, people, locations, indexed,
                   cachedMtimes, scanStats, pc, seen, startSummary, dirtyPrev, dirtyCur,
                   budget, call, ret, serverVars>>

\* a catch that leaves the index as it is
ProcessFailed_silent(ix, id, filePath, albumName) == ix

\* the catch of processPhoto (lines 208-216): the photo is indexed with its
\* identity fields only
ProcessFailed(ix, id, filePath, albumName) ==
    [ix EXCEPT !.photos = MapSet(@, id, BasicPhoto(id, filePath, albumName))]

\* processPhoto on an image file (lines 142-146, 159-217); stat fails when
\* the file went away or became unreadable after readdir listed it
ProcessPhoto ==
    /\ AtEntry
    /\ ~SkippedName(EntryName(TopEntry))
    /\ ~IsDirEntry(TopEntry)
    /\ IsFileEntry(TopEntry)
    /\ toLowerCase(extname(EntryName(TopEntry))) \in PHOTO_EXTENSIONS
    /\ \E statOk \in Outcomes :
        LET filePath == TopPath
            id == generateId(photosRoot, filePath)
            file == File(TopEntry)
            hit == statOk /\ CacheHit(cachedMtimes, photos, filePath, file.mtime, id)
            ix == Index(photos, people, locations, cachedMtimes)
            nx == IF ~statOk
                  THEN ProcessFailed(ix, id, filePath, Top.album)
                  ELSE IF hit
                       THEN [ix EXCEPT !.cachedMtimes = MapSet(@, filePath, file.mtime)]
                       ELSE ProcessMiss(ix, file, id, filePath, Top.album)
        IN /\ photos' = nx.photos
           /\ people' = nx.people
           /\ locations' = nx.locations
           /\ cachedMtimes' = nx.cachedMtimes
           /\ scanStats' = [total |-> scanStats.total + 1,
                            cached |-> scanStats.cached + (IF hit THEN 1 ELSE 0),
                            scanned |-> scanStats.scanned + (IF statOk /\ ~hit THEN 1 ELSE 0)]
           /\ last' = [Step("processPhoto") EXCEPT !.path = filePath, !.id = id,
                                     !.hit = hit, !.statOk = statOk,
                                     !.hadEntry = MapHas(cachedMtimes, filePath),
                                     !.sameMtime = (MapGet(cachedMtimes, filePath) = Some(file.mtime)),
                                     !.hadId = MapHas(photos, id)]
           /\ seen' = seen \cup {filePath}
           /\ budget' = Spend(statOk)
    /\ stack' = Advance
    /\ UNCHANGED <<fs, snapshot, photosRoot, albums, indexed, pc, startSummary, dirtyPrev,
                   dirtyCur, call, ret, serverVars>>

\* a scanDirectory call that also summarises a directory it could not list
CallsUpdateAlbum_afterFailure(frame) == IsSome(frame.album)

\* the scanDirectory call reaches updateAlbum (lines 150-153): it has an
\* album name and its try block was not left through the catch
CallsUpdateAlbum(frame) == IsSome(frame.album) /\ ~frame.failed

\* scanDirectory returns: album summary (lines 150-153); when the root call
\* returns, scan() sets indexed (line 39)
LeaveDirectory ==
    /\ pc = "walk" /\ stack # <<>> /\ Top.entries = <<>>
    /\ albums' = IF CallsUpdateAlbum(Top)
                 THEN updateAlbum(albums, photos, Val(Top.album), Top.dir)
                 ELSE albums
    /\ stack' = Tail(stack)
    /\ IF Tail(stack) = <<>> THEN indexed' = TRUE /\ pc' = "save"
       ELSE UNCHANGED <<indexed, pc>>
    /\ LET wrote == /\ CallsUpdateAlbum(Top)
                     /\ \E i \in 1..Len(photos) : photos[i].v.album = Top.album
       IN last' = [Step("leave") EXCEPT
                      !.album = Top.album,
                      !.albumWritten = wrote,
                      !.written = IF wrote THEN Append(@, Top.key) ELSE @]
    /\ UNCHANGED <<fs, snapshot, photosRoot, photos, people, locations, cachedMtimes,
                   scanStats, seen, startSummary, dirtyPrev, dirtyCur, budget, call, ret, serverVars>>

\* saveCache (lines 42, 99-124); a failed write is logged and skipped
ScanSaveBody ==
    /\ pc = "save"
    /\ \E writeOk \in Outcomes :
        /\ snapshot' = IF writeOk THEN Some(saveCache(photosRoot, photos, cachedMtimes))
                       ELSE snapshot
        /\ last' = [Step("saveCache") EXCEPT !.saved = writeOk]
        /\ budget' = Spend(writeOk)
    /\ pc' = "idle"
    /\ UNCHANGED <<fs, photosRoot, photos, albums, people, locations, indexed, cachedMtimes,
                   scanStats, stack, seen, startSummary, dirtyPrev, dirtyCur, call, ret>>

\* scan() returns to its caller
ScanSave == ScanSaveBody /\ UNCHANGED serverVars

\* ------------------------------------------------------------------------
\* Environment: the corpus changes between scans; the process restarts
\* ------------------------------------------------------------------------
EnvStep(f, rec) ==
    /\ pc \in {"boot", "idle"}
    /\ budget.env < MaxEnv
    /\ fs' = [fs EXCEPT ![f] = rec]
    /\ dirtyCur' = TRUE
    /\ budget' = [budget EXCEPT !.env = @ + 1]
    /\ UNCHANGED <<snapshot, scannerVars, last, seen, startSummary, dirtyPrev, call, ret, serverVars>>

\* the file is rewritten in place: its modification time moves on
Touch ==
    \E f \in FileKeys :
        /\ fs[f].present /\ fs[f].mtime < MaxMtime
        /\ EnvStep(f, [fs[f] EXCEPT !.mtime = @ + 1])

\* the photo tool rewrites the sidecar; the image file is not touched
Annotate ==
    \E f \in FileKeys, c \in Contents :
        /\ fs[f].present /\ fs[f].content # c
        /\ EnvStep(f, [fs[f] EXCEPT !.content = c])

Delete ==
    \E f \in FileKeys :
        /\ fs[f].present
        /\ EnvStep(f, [fs[f] EXCEPT !.present = FALSE])

Create ==
    \E f \in FileKeys, m \in 0..MaxMtime :
        /\ ~fs[f].present
        /\ EnvStep(f, [fs[f] EXCEPT !.present = TRUE, !.mtime = m])

\* the server process is started again, with the same or another PHOTOS_DIR
Restart ==
    /\ pc = "idle"
    /\ budget.restarts < MaxRestarts
    /\ \E root \in Roots :
        /\ photosRoot' = root
        /\ photos' = <<>>
        /\ albums' = <<>>
        /\ people' = <<>>
        /\ locations' = <<>>
        /\ indexed' = FALSE
        /\ cachedMtimes' = <<>>
        /\ scanStats' = [total |-> 0, cached |-> 0, scanned |-> 0]
        /\ pc' = "boot"
        /\ stack' = <<>>
    /\ last' = NoStep
    /\ seen' = {}
    /\ startSummary' = None
    /\ dirtyCur' = TRUE
    /\ budget' = [budget EXCEPT !.restarts = @ + 1]
    /\ UNCHANGED <<fs, snapshot, dirtyPrev, call, ret, serverVars>>

Next ==
    \/ ScanStart
    \/ SkipEntry
    \/ EnterDirectory
    \/ ProcessPhoto
    \/ LeaveDirectory
    \/ ScanSave
    \/ Touch
    \/ Annotate
    \/ Delete
    \/ Create
    \/ Restart

Spec == Init /\ [][Next]_vars

\* ------------------------------------------------------------------------
\* Photo ids under different root strings
\* ------------------------------------------------------------------------
\* every variable the pure-function specifications leave alone
Parked ==
    /\ fs = [f \in FileEntries |-> [Absent EXCEPT !.present = f \in FileKeys]]
    /\ snapshot = None
    /\ albums = <<>>
    /\ cachedMtimes = <<>>
    /\ scanStats = [total |-> 0, cached |-> 0, scanned |-> 0]
    /\ stack = <<>>
    /\ last = NoStep
    /\ seen = {}
    /\ startSummary = None
    /\ dirtyPrev = FALSE
    /\ dirtyCur = FALSE
    /\ budget = [scans |-> 0, env |-> 0, restarts |-> 0, faults |-> 0]

\* root strings for the id comparison: absolute, "./"-relative, another
\* mount point, bare relative, absolute with a trailing slash
IdRoots == {RootAbs, RootRel, RootMnt, RootBare, RootSlash}

\* relative paths, as the entry names from the root down to the file
RelPaths ==
    { <<EntryName("fa")>>, <<EntryName("dT"), EntryName("fb")>>,
      <<EntryName("dT"), EntryName("fa")>>, <<RootBare, EntryName("fa")>> }

RECURSIVE WalkPath(_, _)
\* the filePath processPhoto receives: scanDirectory joins one entry name
\* per level, starting from photosRoot (lines 38, 131, 141, 145)
WalkPath(dir, names) ==
    IF names = <<>> THEN dir ELSE WalkPath(join(dir, Head(names)), Tail(names))

\* the id a scanner constructed with root gives the file at the relative path
ScanId(root, rel) == generateId(root, WalkPath(root, rel))

IdInit ==
    /\ Parked
    /\ Fresh(RootAbs)
    /\ \E a \in IdRoots, b \in IdRoots, rel \in RelPaths :
          call = Some([op |-> "generateId", rootA |-> a, rootB |-> b, rel |-> rel])
    /\ ret = None
    /\ ServerDown

\* two scanners with the two roots reach the file and compute its id
GenerateIds ==
    /\ IsSome(call) /\ ret = None
    /\ ret' = Some([idA |-> ScanId(Val(call).rootA, Val(call).rel),
                    idB |-> ScanId(Val(call).rootB, Val(call).rel)])
    /\ UNCHANGED <<fs, snapshot, scannerVars, ghostVars, budget, call, serverVars>>

IdNext == GenerateIds

IdSpec == IdInit /\ [][IdNext]_vars

\* C6: scanners configured with any two root strings give the same id to
\* files with the same path relative to the root.
C6_IdIndependentOfRoot ==
    IsSome(ret) => Val(ret).idA = Val(ret).idB

\* ------------------------------------------------------------------------
\* Dates: whole hours since 1970-01-01T00:00, proleptic Gregorian calendar
\* ------------------------------------------------------------------------
\* day number of the day doy of the year yoe of the 400-year era
DaysOfEra(era, yoe, doy) ==
    era * 146097 + (yoe * 365 + yoe \div 4 - yoe \div 100 + doy) - 719468

\* yy: the year, counted from March; mp: the month, counted from March
DaysOfShifted(yy, mp, d) ==
    DaysOfEra(yy \div 400, yy - (yy \div 400) * 400, (153 * mp + 2) \div 5 + d - 1)

\* days since the epoch of year y, month m (1..12), day d; a day past the
\* end of the month runs into the next month, as new Date(y, m - 1, d) does
DaysFromCivil(y, m, d) ==
    DaysOfShifted(IF m <= 2 THEN y - 1 ELSE y, IF m > 2 THEN m - 3 ELSE m + 9, d)

CivilOfMonth(era, yoe, d, m) ==
    [y |-> yoe + era * 400 + (IF m <= 2 THEN 1 ELSE 0), m |-> m, d |-> d]

\* mp: the month, counted from March
CivilOfShifted(era, yoe, doy, mp) ==
    CivilOfMonth(era, yoe, doy - (153 * mp + 2) \div 5 + 1, IF mp < 10 THEN mp + 3 ELSE mp - 9)

CivilOfYear(era, doe, yoe) ==
    CivilOfShifted(era, yoe, doe - (365 * yoe + yoe \div 4 - yoe \div 100),
                   (5 * (doe - (365 * yoe + yoe \div 4 - yoe \div 100)) + 2) \div 153)

\* doe: the day of the 400-year era
CivilOfEra(era, doe) ==
    CivilOfYear(era, doe, (doe - doe \div 1460 + doe \div 36524 - doe \div 146096) \div 365)

\* [y, m (1..12), d] of a day number
CivilFromDays(z) ==
    CivilOfEra((z + 719468) \div 146097, (z + 719468) - ((z + 719468) \div 146097) * 146097)

\* new Date(year, monthIndex, day, hours)
DateOf(year, monthIndex, day, hours) == DaysFromCivil(year, monthIndex + 1, day) * 24 + hours

getFullYear(t) == CivilFromDays(t \div 24).y
getMonth(t) == CivilFromDays(t \div 24).m - 1
getDate(t) == CivilFromDays(t \div 24).d
getHours(t) == t % 24

\* ------------------------------------------------------------------------
\* PhotoScanner queries
\* ------------------------------------------------------------------------
getAllPhotos(ph) == MapValues(ph)

\* getPhotosWithPeople with Array.some in place of Array.every
getPhotosWithPeople_some(ph, names) ==
    LET Keep(p) == IF ~IsSome(p.people) THEN FALSE
                   ELSE \E i \in 1..Len(names) : names[i] \in Range(Val(p.people))
    IN SelectSeq(getAllPhotos(ph), Keep)

\* getPhotosWithPeople (lines 470-475)
getPhotosWithPeople(ph, names) ==
    LET Keep(p) == IF ~IsSome(p.people) THEN FALSE
                   ELSE \A i \in 1..Len(names) : names[i] \in Range(Val(p.people))
    IN SelectSeq(getAllPhotos(ph), Keep)

\* the comparator with its operands exchanged: a.photoCount - b.photoCount
CountAscAfter(a, b) == a.photoCount - b.photoCount > 0

\* the comparator (a, b) => b.photoCount - a.photoCount is positive: a goes
\* after b
CountDescAfter(a, b) == b.photoCount - a.photoCount > 0

RECURSIVE InsertByCount(_, _)
\* place x in the sorted prefix, in front of the first element the comparator
\* puts after it (Array.sort is stable)
InsertByCount(sorted, x) ==
    IF sorted = <<>> THEN <<x>>
    ELSE IF CountDescAfter(Head(sorted), x) THEN <<x>> \o sorted
         ELSE <<Head(sorted)>> \o InsertByCount(Tail(sorted), x)

RECURSIVE SortFrom(_, _)
SortFrom(arr, acc) ==
    IF arr = <<>> THEN acc ELSE SortFrom(Tail(arr), InsertByCount(acc, Head(arr)))

\* array.sort((a, b) => b.photoCount - a.photoCount)
sortByPhotoCount(arr) == SortFrom(arr, <<>>)

\* getAllPeople (lines 435-437)
getAllPeople(pe) == sortByPhotoCount(MapValues(pe))

\* getAllLocations (lines 443-445)
getAllLocations(lo) == sortByPhotoCount(MapValues(lo))

\* getAllAlbums (lines 423-425)
getAllAlbums(al) == MapValues(al)

\* getAlbum (lines 427-429): the lookup in the map that updateAlbum keys by
\* album name (line 371)
getAlbum(al, id) == MapGet(al, id)

\* ------------------------------------------------------------------------
\* StoryGenerator
\* ------------------------------------------------------------------------
\* an exchange that loses the value at i
Swap_overwrite(arr, i, j) == [arr EXCEPT ![i] = arr[j]]

Swap(arr, i, j) == [arr EXCEPT ![i] = arr[j], ![j] = arr[i]]

RECURSIVE FisherYates(_, _, _)
\* shuffleArray: for i = n-1 downto 1, swap result[i] and result[draw[i]]
\* (indices from 0 in the code, from 1 here)
FisherYates(arr, i, draw) ==
    IF i < 1 THEN arr ELSE FisherYates(Swap(arr, i + 1, draw[i] + 1), i - 1, draw)

\* the values Math.floor(Math.random() * (i + 1)) can take, for each i
Draws(n) == {r \in [1..(n - 1) -> 0..(n - 1)] : \A i \in 1..(n - 1) : r[i] <= i}

shuffleArray(arr, draw) == FisherYates(arr, Len(arr) - 1, draw)

\* shuffleAndLimit
shuffleAndLimit(arr, limit, draw) ==
    LET sh == shuffleArray(arr, draw)
    IN SubSeq(sh, 1, IF Len(sh) < limit THEN Len(sh) ELSE limit)

RECURSIVE Distinct(_, _)
\* [...new Set(values)]: the distinct values in order of first occurrence
Distinct(values, acc) ==
    IF values = <<>> THEN acc
    ELSE Distinct(Tail(values),
                  IF Head(values) \in Range(acc) THEN acc ELSE Append(acc, Head(values)))

RECURSIVE FlatPeople(_)
\* photos.flatMap(p => p.people || [])
FlatPeople(ps) ==
    IF ps = <<>> THEN <<>>
    ELSE (IF IsSome(Head(ps).people) THEN Val(Head(ps).people) ELSE <<>>) \o FlatPeople(Tail(ps))

RECURSIVE LocationNames(_)
\* photos.map(p => p.locationName).filter(Boolean)
LocationNames(ps) ==
    IF ps = <<>> THEN <<>>
    ELSE (IF IsSome(Head(ps).locationName) THEN <<Val(Head(ps).locationName)>> ELSE <<>>)
         \o LocationNames(Tail(ps))

YEARS_AGO_LIMIT == 20

\* the member limits the generators pass to shuffleAndLimit (lines 303, 350,
\* 412, 426) and the ticket cap of line 319
PEOPLE_LIMIT == 30
LOCATION_LIMIT == 30
SEASON_LIMIT == 25
RANDOM_LIMIT == 20
TICKET_CAP == 10

\* generateNearbyDaysStory (lines 217-250); the difference is taken between
\* the instant "today" and midnight of the photo's month/day in today's year
NearbyPhotos(ph, today) ==
    LET Near(p) ==
            /\ IsSome(p.takenAt)
            /\ LET photoDate == Val(p.takenAt)
                   thisYearPhotoDate == DateOf(getFullYear(today), getMonth(photoDate),
                                               getDate(photoDate), 0)
                   diffHours == IF today >= thisYearPhotoDate THEN today - thisYearPhotoDate
                                ELSE thisYearPhotoDate - today
               IN diffHours <= 7 * 24 /\ getFullYear(photoDate) < getFullYear(today)
    IN SelectSeq(getAllPhotos(ph), Near)

generateNearbyDaysStory(ph, today, draw) ==
    LET nearbyPhotos == NearbyPhotos(ph, today)
    IN IF Len(nearbyPhotos) = 0 THEN None
       ELSE Some([id |-> <<"nearby-days">>, type |-> "years_ago", title |-> <<"this week">>,
                  description |-> None,
                  photos |-> shuffleAndLimit(nearbyPhotos, YEARS_AGO_LIMIT, draw),
                  metadata |-> None])

\* the photos taken on today's month and day, in any year (lines 159-172)
PhotosOnThisDay(ph, today) ==
    LET Same(p) == /\ IsSome(p.takenAt)
                   /\ getMonth(Val(p.takenAt)) = getMonth(today)
                   /\ getDate(Val(p.takenAt)) = getDate(today)
    IN SelectSeq(getAllPhotos(ph), Same)

\* the years that have a photo on today's month and day
YearsOnThisDay(ph, today) ==
    {getFullYear(Val(p.takenAt)) : p \in Range(PhotosOnThisDay(ph, today))}

\* the story when the photos of every year are taken, not those of the year drawn
YearsAgoStoryFor_allYears(ph, today, randomYear, draw) ==
    LET yearsAgo == getFullYear(today) - randomYear
        yearPhotos == PhotosOnThisDay(ph, today)
    IN IF yearsAgo <= 0 THEN None
       ELSE Some([id |-> <<"years-ago", randomYear, getMonth(today), getDate(today)>>,
                  type |-> "years_ago", title |-> <<"years ago today", yearsAgo>>,
                  description |-> Some(<<randomYear, getMonth(today) + 1, getDate(today)>>),
                  photos |-> shuffleAndLimit(yearPhotos, YEARS_AGO_LIMIT,
                                             [i \in 1..(Len(yearPhotos) - 1) |-> i]),
                  metadata |-> Some([yearsAgo |-> yearsAgo, people |-> None,
                                     location |-> None])])

\* the exact-day story for the year drawn (lines 183-213)
YearsAgoStoryFor(ph, today, randomYear, draw) ==
    LET yearsAgo == getFullYear(today) - randomYear
        OfYear(p) == getFullYear(Val(p.takenAt)) = randomYear
        yearPhotos == SelectSeq(PhotosOnThisDay(ph, today), OfYear)
        locs == Distinct(LocationNames(yearPhotos), <<>>)
        names == Distinct(FlatPeople(yearPhotos), <<>>)
    IN IF yearsAgo <= 0 THEN None
       ELSE Some([id |-> <<"years-ago", randomYear, getMonth(today), getDate(today)>>,
                  type |-> "years_ago", title |-> <<"years ago today", yearsAgo>>,
                  description |-> Some(<<randomYear, getMonth(today) + 1, getDate(today)>>),
                  photos |-> shuffleAndLimit(yearPhotos, YEARS_AGO_LIMIT, draw),
                  metadata |-> Some([yearsAgo |-> yearsAgo,
                                     people |-> IF Len(names) > 0 THEN Some(names) ELSE None,
                                     location |-> IF Len(locs) > 0 THEN Some(locs[1]) ELSE None])])

\* the results generateYearsAgoStory(today) can return, over the random draws
generateYearsAgoStory(ph, today) ==
    IF YearsOnThisDay(ph, today) = {}
    THEN {generateNearbyDaysStory(ph, today, draw) :
              draw \in Draws(Len(NearbyPhotos(ph, today)))}
    ELSE UNION {
           LET n == Cardinality({i \in 1..Len(ph) :
                                   /\ ph[i].v \in Range(PhotosOnThisDay(ph, today))
                                   /\ getFullYear(Val(ph[i].v.takenAt)) = randomYear})
           IN {YearsAgoStoryFor(ph, today, randomYear, draw) : draw \in Draws(n)}
           : randomYear \in YearsOnThisDay(ph, today)}

\* getLocationPhotos (scanner.ts lines 447-449)
getLocationPhotos(ph, locationName) ==
    LET At(p) == p.locationName = Some(locationName)
    IN SelectSeq(getAllPhotos(ph), At)

RECURSIVE SortedSeq(_)
\* the numbers of a set in ascending order: [...new Set(values)].sort()
SortedSeq(S) ==
    IF S = {} THEN <<>> ELSE <<MinOf(S)>> \o SortedSeq(S \ {MinOf(S)})

\* photos.map(p => p.takenAt?.getFullYear()).filter(Boolean), de-duplicated
\* and sorted
YearsOf(ps) ==
    SortedSeq({getFullYear(Val(ps[i].takenAt)) :
                  i \in {j \in 1..Len(ps) : IsSome(ps[j].takenAt)}})

\* array.slice(0, n)
Slice(arr, n) == SubSeq(arr, 1, IF Len(arr) < n THEN Len(arr) ELSE n)

\* createPeopleStory (lines 281-309), over the draws of its shuffle
createPeopleStory(names, ps) ==
    { [id |-> <<"people", names>>, type |-> "people_together",
       title |-> <<"story of", names>>,
       description |-> Some([years |-> YearsOf(ps),
                             locations |-> Slice(Distinct(LocationNames(ps), <<>>), 3)]),
       photos |-> shuffleAndLimit(ps, PEOPLE_LIMIT, draw),
       metadata |-> Some([people |-> names])]
      : draw \in Draws(Len(ps)) }

\* Person.name of each entry
NamesOf(persons) == [i \in 1..Len(persons) |-> persons[i].name]

\* the names generatePeopleTogetherStory can select (lines 259-261)
SelectedNames(persons) ==
    {NamesOf(Slice(shuffleArray(persons, draw), 3)) : draw \in Draws(Len(persons))}

\* a fallback that drops the first of the three names
PeopleStoryFor_lastTwo(ph, selectedNames) ==
    LET found == getPhotosWithPeople(ph, selectedNames)
        twoNames == SubSeq(selectedNames, 2, Len(selectedNames))
        twoPhotos == getPhotosWithPeople(ph, twoNames)
    IN IF Len(found) = 0
       THEN IF Len(selectedNames) > 2 /\ Len(twoPhotos) > 0
            THEN {Some(st) : st \in createPeopleStory(twoNames, twoPhotos)}
            ELSE {None}
       ELSE {Some(st) : st \in createPeopleStory(selectedNames, found)}

\* generatePeopleTogetherStory after the selection (lines 264-278): the
\* results it can return for the selected names
PeopleStoryFor(ph, selectedNames) ==
    LET found == getPhotosWithPeople(ph, selectedNames)
        twoNames == Slice(selectedNames, 2)
        twoPhotos == getPhotosWithPeople(ph, twoNames)
    IN IF Len(found) = 0
       THEN IF Len(selectedNames) > 2 /\ Len(twoPhotos) > 0
            THEN {Some(st) : st \in createPeopleStory(twoNames, twoPhotos)}
            ELSE {None}
       ELSE {Some(st) : st \in createPeopleStory(selectedNames, found)}

\* generatePeopleTogetherStory (lines 253-279): the results it can return
generatePeopleTogetherStory(ph, pe) ==
    LET persons == getAllPeople(pe)
    IN IF Len(persons) < 2 THEN {None}
       ELSE UNION {PeopleStoryFor(ph, names) : names \in SelectedNames(persons)}

RECURSIVE WeightedLocations_uncapped(_)
\* a pool with one ticket per counted photo
WeightedLocations_uncapped(locs) ==
    IF locs = <<>> THEN <<>>
    ELSE [i \in 1..Head(locs).photoCount |-> Head(locs)] \o WeightedLocations_uncapped(Tail(locs))

RECURSIVE WeightedLocations(_)
\* locations.flatMap(loc => Array(Math.min(loc.photoCount, 10)).fill(loc))
WeightedLocations(locs) ==
    IF locs = <<>> THEN <<>>
    ELSE LET loc == Head(locs)
             n == IF loc.photoCount < TICKET_CAP THEN loc.photoCount ELSE TICKET_CAP
         IN [i \in 1..n |-> loc] \o WeightedLocations(Tail(locs))

\* generateLocationStory after the draw of the ticket (lines 325-356): the
\* results it can return for the selected location
LocationStoryFor(ph, selectedLocation) ==
    LET ps == getLocationPhotos(ph, selectedLocation.name)
        names == Distinct(FlatPeople(ps), <<>>)
    IN IF Len(ps) = 0 THEN {None}
       ELSE { Some([id |-> <<"location", selectedLocation.name>>,
                    type |-> "location",
                    title |-> <<"story of", selectedLocation.name>>,
                    description |-> Some([years |-> YearsOf(ps),
                                          people |-> Slice(names, 4)]),
                    photos |-> shuffleAndLimit(ps, LOCATION_LIMIT, draw),
                    metadata |-> Some([location |-> selectedLocation.name,
                                       people |-> IF Len(names) > 0 THEN Some(names)
                                                  ELSE None])])
              : draw \in Draws(Len(ps)) }

\* generateLocationStory (lines 312-357): the results it can return
generateLocationStory(ph, lo) ==
    LET locs == getAllLocations(lo)
        weightedLocations == WeightedLocations(locs)
    IN IF Len(locs) = 0 THEN {None}
       ELSE UNION {LocationStoryFor(ph, weightedLocations[k]) : k \in 1..Len(weightedLocations)}

\* seasons that start one month late
SeasonMonths_late(month) ==
    IF month >= 3 /\ month <= 5 THEN <<3, 4, 5>>
    ELSE IF month >= 6 /\ month <= 8 THEN <<6, 7, 8>>
    ELSE IF month >= 9 /\ month <= 11 THEN <<9, 10, 11>>
    ELSE <<0, 1, 2>>

\* the months (0-11) of the season that holds the month (lines 365-379)
SeasonMonths(month) ==
    IF month >= 2 /\ month <= 4 THEN <<2, 3, 4>>
    ELSE IF month >= 5 /\ month <= 7 THEN <<5, 6, 7>>
    ELSE IF month >= 8 /\ month <= 10 THEN <<8, 9, 10>>
    ELSE <<11, 0, 1>>

\* generateSeasonStory (lines 360-421): the results it can return
generateSeasonStory(ph, today) ==
    LET seasonMonths == SeasonMonths(getMonth(today))
        InSeason(p) == /\ IsSome(p.takenAt)
                       /\ getMonth(Val(p.takenAt)) \in Range(seasonMonths)
                       /\ getFullYear(Val(p.takenAt)) < getFullYear(today)
        seasonPhotos == SelectSeq(getAllPhotos(ph), InSeason)
    IN IF Len(seasonPhotos) = 0 THEN {None}
       ELSE UNION {
              LET OfYear(p) == getFullYear(Val(p.takenAt)) = randomYear
                  ps == SelectSeq(seasonPhotos, OfYear)
              IN { Some([id |-> <<"season", seasonMonths, randomYear>>, type |-> "season",
                         title |-> <<"season of", randomYear>>,
                         description |-> None,
                         photos |-> shuffleAndLimit(ps, SEASON_LIMIT, draw),
                         metadata |-> Some([dateRange |->
                                              [start |-> DateOf(randomYear, seasonMonths[1], 1, 0),
                                               end |-> DateOf(randomYear, seasonMonths[3], 28, 0)]])])
                   : draw \in Draws(Len(ps)) }
              : randomYear \in {getFullYear(Val(p.takenAt)) : p \in Range(seasonPhotos)}}

\* generateRandomPhotosStory (lines 424-436): the stories it can return
generateRandomPhotosStory(ph) ==
    { [id |-> <<"random">>, type |-> "random", title |-> <<"random", Len(ph)>>,
       description |-> None,
       photos |-> shuffleAndLimit(getAllPhotos(ph), RANDOM_LIMIT, draw),
       metadata |-> None]
      : draw \in Draws(Len(ph)) }

\* generateRandomStory (lines 126-149): one of the four kinds, drawn
generateRandomStory(ix, now) ==
    generateYearsAgoStory(ix.photos, now)
        \cup generatePeopleTogetherStory(ix.photos, ix.people)
        \cup generateLocationStory(ix.photos, ix.locations)
        \cup generateSeasonStory(ix.photos, now)

\* the generators of lines 451-456, by name
Generators == <<"people", "location", "season", "random">>

RunGenerator(kind, ix, now) ==
    CASE kind = "people" -> generatePeopleTogetherStory(ix.photos, ix.people)
      [] kind = "location" -> generateLocationStory(ix.photos, ix.locations)
      [] kind = "season" -> generateSeasonStory(ix.photos, now)
      [] kind = "random" -> {Some(st) : st \in generateRandomPhotosStory(ix.photos)}

\* seenTypes: the types of the stories pushed so far
TypesOf(stories) == {stories[i].type : i \in 1..Len(stories)}

\* what each generator can return on the index; the index does not change
\* while generateMultipleStories runs, so the sets are computed once
StoryResults(ix, now) ==
    [yearsAgo |-> generateYearsAgoStory(ix.photos, now),
     people |-> RunGenerator("people", ix, now),
     location |-> RunGenerator("location", ix, now),
     season |-> RunGenerator("season", ix, now),
     random |-> RunGenerator("random", ix, now),
     any |-> generateRandomStory(ix, now)]

RECURSIVE GeneratorLoop(_, _, _, _)
\* the loop of lines 458-466: the story lists it can end with
GeneratorLoop(order, stories, count, results) ==
    IF order = <<>> \/ Len(stories) >= count THEN {stories}
    ELSE UNION { GeneratorLoop(Tail(order), next, count, results)
                 : next \in { IF IsSome(story) /\ Val(story).type \notin TypesOf(stories)
                              THEN Append(stories, Val(story)) ELSE stories
                              : story \in results[Head(order)] } }

RECURSIVE FillLoop(_, _, _)
\* the loop of lines 469-476: the story lists it can end with
FillLoop(stories, count, results) ==
    IF Len(stories) >= count THEN {stories}
    ELSE UNION { IF IsSome(story)
                 THEN UNION { FillLoop(next, count, results)
                              : next \in {Append(stories, Val(story))} }
                 ELSE {stories}
                 : story \in results.any }

\* generateMultipleStories (lines 439-479): the batches it can return
generateMultipleStories(ix, now, count) ==
    UNION { UNION { UNION { UNION { FillLoop(stories, count, results)
                                    : stories \in GeneratorLoop(order, first, count, results) }
                            : order \in {shuffleArray(Generators, draw) :
                                            draw \in Draws(Len(Generators))} }
                    : first \in { IF IsSome(yearsAgoStory) THEN <<Val(yearsAgoStory)>> ELSE <<>>
                                  : yearsAgoStory \in results.yearsAgo } }
            : results \in {StoryResults(ix, now)} }

\* ------------------------------------------------------------------------
\* Queries and stories over the index a cold scan builds
\* ------------------------------------------------------------------------
\* capture times in the corpus
Jun01of2023 == DateOf(2023, 5, 1, 10)
Jun15of2023 == DateOf(2023, 5, 15, 8)
Jun08of2022 == DateOf(2022, 5, 8, 0)
Jun02of2024 == DateOf(2024, 5, 2, 0)
May31of2023 == DateOf(2023, 4, 31, 0)
Jun08of2023 == DateOf(2023, 5, 8, 15)

\* target dates: midnight and noon of 2024-06-08, the morning of 2024-06-01,
\* noon of 2023-06-08 and midnight of 2022-06-08
QDates == {DateOf(2024, 5, 8, 0), DateOf(2024, 5, 8, 12), DateOf(2024, 5, 1, 9),
           DateOf(2023, 5, 8, 12), DateOf(2022, 5, 8, 0)}

ExifDated(t) == [ok |-> TRUE, date |-> Some(t), lat |-> None, lon |-> None]

SideBM ==
    [state |-> "ok", face |-> Some(<<Some("B")>>),
     geo |-> Some([city |-> Some("M"), country |-> None, lat |-> Some(1), lon |-> Some(1)]),
     takenAt |-> None]

\* one face, without a name
SideAC ==
    [state |-> "ok", face |-> Some(<<Some("A"), Some("C")>>), geo |-> None, takenAt |-> None]

SideABC ==
    [state |-> "ok", face |-> Some(<<Some("A"), Some("B"), Some("C")>>), geo |-> None,
     takenAt |-> None]

SideNamelessL ==
    [state |-> "ok", face |-> Some(<<None>>),
     geo |-> Some([city |-> Some("L"), country |-> None, lat |-> Some(1), lon |-> Some(1)]),
     takenAt |-> None]

QContents ==
    { [exif |-> ExifDated(Jun01of2023), sidecars |-> <<SideAL, SideMissing>>],
      [exif |-> ExifDated(Jun15of2023), sidecars |-> <<SideAB, SideMissing>>],
      [exif |-> ExifDated(Jun08of2022), sidecars |-> <<SideMissing, SideMissing>>],
      [exif |-> ExifPlain, sidecars |-> <<SideBM, SideMissing>>],
      [exif |-> ExifDated(Jun02of2024), sidecars |-> <<SideNamelessL, SideMissing>>],
      [exif |-> ExifDated(May31of2023), sidecars |-> <<SideBM, SideMissing>>],
      [exif |-> ExifDated(Jun08of2023), sidecars |-> <<SideAL, SideMissing>>],
      [exif |-> ExifDated(Jun15of2023), sidecars |-> <<SideAC, SideMissing>>],
      [exif |-> ExifDated(Jun08of2022), sidecars |-> <<SideABC, SideMissing>>] }

\* the image files of the corpus, in walk order: a.jpg, T/b.jpg, T/c.jpg
QFiles == <<"fa", "fb", "fc">>

\* scans after which a location with one photo has more than 10 in its count
TicketRounds == 11

\* greatest limit asked of shuffleAndLimit
MaxLimit == 4

\* the days on which the season generator runs: one in each season, and the
\* days of the other queries
SeasonDates ==
    QDates \cup {DateOf(2024, 0, 15, 12), DateOf(2024, 3, 15, 12), DateOf(2024, 9, 15, 12)}
QFileName(f) == EntryName(f)
QAlbum(f) == IF ParentOf(f) = "root" THEN None ELSE Some(JoinSegs(RelNames(ParentOf(f))))
QPath(root, f) == WalkPath(root, RelNames(f))

\* name lists asked of getPhotosWithPeople
QNames == {<<>>, <<"A">>, <<"B">>, <<"A", "B">>, <<"B", "A">>}

RECURSIVE ColdIndex(_, _, _, _)
\* the index after the walk of a first scan without snapshot called
\* processPhoto on the files
ColdIndex(root, files, content, ix) ==
    IF files = <<>> THEN ix
    ELSE LET f == Head(files)
             filePath == QPath(root, f)
             file == [present |-> TRUE, mtime |-> 1, exif |-> content[f].exif,
                      sidecars |-> content[f].sidecars]
         IN ColdIndex(root, Tail(files), content,
                      ProcessMiss(ix, file, generateId(root, filePath), filePath, QAlbum(f)))

RECURSIVE WalkedIndex(_, _, _)
\* the index after so many scans of the same scanner in which no file hit
\* the cache
WalkedIndex(content, rounds, ix) ==
    IF rounds = 0 THEN ix
    ELSE WalkedIndex(content, rounds - 1, ColdIndex(RootAbs, QFiles, content, ix))

\* the queries are asked after the first scan, or after as many scans
\* without cache hit as make a location count exceed the ticket cap; the
\* latter is followed for the corpora whose first two files are alike
QRounds(content) == IF content["fa"] = content["fb"] THEN {1, TicketRounds} ELSE {1}

QInit ==
    /\ \E content \in [Range(QFiles) -> QContents], rounds \in {1, TicketRounds} :
        LET ix == WalkedIndex(content, rounds, Index(<<>>, <<>>, <<>>, <<>>))
        IN /\ rounds \in QRounds(content)
           /\ fs = [f \in FileEntries |->
                       IF f \in Range(QFiles)
                       THEN [present |-> TRUE, mtime |-> 1, content |-> content[f]] ELSE Absent]
           /\ photos = ix.photos
           /\ people = ix.people
           /\ locations = ix.locations
           /\ cachedMtimes = ix.cachedMtimes
           /\ albums = updateAlbum(<<>>, ix.photos, EntryName("dT"), join(RootAbs, EntryName("dT")))
           /\ snapshot = Some(saveCache(RootAbs, ix.photos, ix.cachedMtimes))
           /\ seen = {QPath(RootAbs, f) : f \in Range(QFiles)}
    /\ photosRoot = RootAbs
    /\ indexed = TRUE
    /\ pc = "idle"
    /\ stack = <<>>
    /\ scanStats = [total |-> Len(QFiles), cached |-> 0, scanned |-> Len(QFiles)]
    /\ last = [NoStep EXCEPT !.op = "saveCache", !.load = "nofile", !.saved = TRUE]
    /\ startSummary = None
    /\ dirtyPrev = FALSE
    /\ dirtyCur = FALSE
    /\ budget = [scans |-> 1, env |-> 0, restarts |-> 0, faults |-> 0]
    /\ call = None
    /\ ret = None
    /\ ServerDown

\* the scanner is idle; one call is followed per behaviour, since no call
\* of this section changes the index
QueryReady == pc = "idle" /\ ~IsSome(call)

Asked(op, names, today) == Some([op |-> op, names |-> names, today |-> today])

\* a caller asks for the photos that show all the given people
QueryPhotosWithPeople ==
    /\ QueryReady
    /\ \E names \in QNames :
        /\ call' = Asked("getPhotosWithPeople", names, 0)
        /\ ret' = Some(getPhotosWithPeople(photos, names))
    /\ UNCHANGED <<fs, snapshot, scannerVars, ghostVars, budget, serverVars>>

\* /api/people
QueryAllPeople ==
    /\ QueryReady
    /\ call' = Asked("getAllPeople", <<>>, 0)
    /\ ret' = Some(getAllPeople(people))
    /\ UNCHANGED <<fs, snapshot, scannerVars, ghostVars, budget, serverVars>>

\* /api/locations
QueryAllLocations ==
    /\ QueryReady
    /\ call' = Asked("getAllLocations", <<>>, 0)
    /\ ret' = Some(getAllLocations(locations))
    /\ UNCHANGED <<fs, snapshot, scannerVars, ghostVars, budget, serverVars>>

\* /api/albums/:id/photos (part_000 lines 166-173) with the id or the name
\* of an album that /api/albums returned
QueryAlbum ==
    /\ QueryReady
    /\ \E i \in 1..Len(getAllAlbums(albums)) :
        \E id \in {getAllAlbums(albums)[i].id, getAllAlbums(albums)[i].name} :
            /\ call' = Asked("getAlbum", id, 0)
            /\ ret' = Some(getAlbum(albums, id))
    /\ UNCHANGED <<fs, snapshot, scannerVars, ghostVars, budget, serverVars>>

\* /api/stories/today and /api/stories/date/:date
StoryYearsAgo ==
    /\ QueryReady
    /\ \E today \in QDates :
        \E story \in generateYearsAgoStory(photos, today) :
            /\ call' = Asked("generateYearsAgoStory", <<>>, today)
            /\ ret' = Some(story)
    /\ UNCHANGED <<fs, snapshot, scannerVars, ghostVars, budget, serverVars>>

\* the people-together generator is called
StoryPeopleTogether ==
    /\ QueryReady
    /\ LET persons == getAllPeople(people)
       IN IF Len(persons) < 2
          THEN /\ call' = Asked("generatePeopleTogetherStory", <<>>, 0)
               /\ ret' = Some(None)
          ELSE \E names \in SelectedNames(persons) :
                  \E story \in PeopleStoryFor(photos, names) :
                      /\ call' = Asked("generatePeopleTogetherStory", names, 0)
                      /\ ret' = Some(story)
    /\ UNCHANGED <<fs, snapshot, scannerVars, ghostVars, budget, serverVars>>

\* the location generator is called; the call keeps the names on the tickets
\* of the pool, the drawn ticket first
StoryLocation ==
    /\ QueryReady
    /\ LET pool == WeightedLocations(getAllLocations(locations))
       IN IF Len(getAllLocations(locations)) = 0
          THEN /\ call' = Asked("generateLocationStory", <<>>, 0)
               /\ ret' = Some(None)
          ELSE \E k \in 1..Len(pool) :
                  \E story \in LocationStoryFor(photos, pool[k]) :
                      /\ call' = Asked("generateLocationStory",
                                       <<pool[k].name>> \o NamesOf(pool), 0)
                      /\ ret' = Some(story)
    /\ UNCHANGED <<fs, snapshot, scannerVars, ghostVars, budget, serverVars>>

\* the season generator is called
StorySeason ==
    /\ QueryReady
    /\ \E today \in SeasonDates :
        \E story \in generateSeasonStory(photos, today) :
            /\ call' = Asked("generateSeasonStory", <<>>, today)
            /\ ret' = Some(story)
    /\ UNCHANGED <<fs, snapshot, scannerVars, ghostVars, budget, serverVars>>

\* the random-photos generator is called
StoryRandomPhotos ==
    /\ QueryReady
    /\ \E story \in generateRandomPhotosStory(photos) :
        /\ call' = Asked("generateRandomPhotosStory", <<>>, 0)
        /\ ret' = Some(Some(story))
    /\ UNCHANGED <<fs, snapshot, scannerVars, ghostVars, budget, serverVars>>

\* shuffleAndLimit on the photos of the index with a limit below, at and
\* above their number
ShuffleLimited ==
    /\ QueryReady
    /\ \E limit \in 0..MaxLimit, draw \in Draws(Len(photos)) :
        /\ call' = Asked("shuffleAndLimit", <<>>, limit)
        /\ ret' = Some(shuffleAndLimit(getAllPhotos(photos), limit, draw))
    /\ UNCHANGED <<fs, snapshot, scannerVars, ghostVars, budget, serverVars>>

QNext ==
    \/ QueryPhotosWithPeople
    \/ QueryAllPeople
    \/ QueryAllLocations
    \/ QueryAlbum
    \/ StoryYearsAgo
    \/ StoryPeopleTogether
    \/ StoryLocation
    \/ StorySeason
    \/ StoryRandomPhotos
    \/ ShuffleLimited

QuerySpec == QInit /\ [][QNext]_vars

\* the last call was op
Called(op) == IsSome(call) /\ Val(call).op = op

\* the names in a photo's people list; none when the list is undefined
PeopleOf(p) == IF IsSome(p.people) THEN Range(Val(p.people)) ELSE {}

NoDuplicateIds(ps) == \A i, j \in 1..Len(ps) : ps[i].id = ps[j].id => i = j

\* C7: for a non-empty list of names getPhotosWithPeople returns exactly the
\* indexed photos whose people list contains every name, each once.
C7_WithPeopleExact ==
    (Called("getPhotosWithPeople") /\ Val(call).names # <<>>)
        => /\ NoDuplicateIds(Val(ret))
           /\ Range(Val(ret)) = {p \in Range(MapValues(photos)) :
                                    Range(Val(call).names) \subseteq PeopleOf(p)}

\* two names were asked for; some photo shows both and some photo does not
C7_Witness ==
    /\ Called("getPhotosWithPeople")
    /\ Val(call).names = <<"A", "B">>
    /\ Len(Val(ret)) >= 1
    /\ \E p \in Range(MapValues(photos)) : PeopleOf(p) = {"A"}

\* C8: getPhotosWithPeople([]) returns every photo of the index, also the
\* photos without people annotation.
C8_EmptyListReturnsAll ==
    (Called("getPhotosWithPeople") /\ Val(call).names = <<>>)
        => Range(Val(ret)) = Range(MapValues(photos))

\* res holds every entry of the map exactly once, by non-increasing count
SortedListing(res, map) ==
    /\ Len(res) = Len(map)
    /\ \A i \in 1..Len(map) : \E j \in 1..Len(res) : res[j] = map[i].v
    /\ \A i, j \in 1..Len(res) : res[i].name = res[j].name => i = j
    /\ \A i, j \in 1..Len(res) : i < j => res[i].photoCount >= res[j].photoCount

\* C9: getAllPeople and getAllLocations return every entry of their map
\* once, by non-increasing photoCount, and leave the maps as they are.
C9_ListingsSorted ==
    [][/\ (IsSome(call') /\ Val(call').op = "getAllPeople")
            => (SortedListing(Val(ret'), people) /\ UNCHANGED <<people, locations, photos>>)
       /\ (IsSome(call') /\ Val(call').op = "getAllLocations")
            => (SortedListing(Val(ret'), locations) /\ UNCHANGED <<people, locations, photos>>)
      ]_vars

\* the people listing is in another order than the map
C9_Witness ==
    /\ Called("getAllPeople")
    /\ Len(Val(ret)) = 2
    /\ Val(ret) # MapValues(people)
    /\ Val(ret)[1].photoCount > Val(ret)[2].photoCount

\* day number of the month/day of t, placed in the calendar year of today
DayInYearOf(today, t) == DaysFromCivil(getFullYear(today), getMonth(t) + 1, getDate(t))

\* the photo is from an earlier year and at most 7 days from today's month/day
WithinAWeek(p, today) ==
    /\ IsSome(p.takenAt)
    /\ getFullYear(Val(p.takenAt)) < getFullYear(today)
    /\ DayInYearOf(today, Val(p.takenAt)) - DayInYearOf(today, today) \in -7..7

OnSameDay(p, today) ==
    /\ IsSome(p.takenAt)
    /\ getMonth(Val(p.takenAt)) = getMonth(today)
    /\ getDate(Val(p.takenAt)) = getDate(today)

\* C10: when no indexed photo has D's month and day and a photo of an earlier
\* year lies within 7 days of it, generateYearsAgoStory(D) returns the
\* nearby-days story, whatever D's time of day.
C10_NearbyFallback ==
    (/\ Called("generateYearsAgoStory")
     /\ \A p \in Range(MapValues(photos)) : ~OnSameDay(p, Val(call).today)
     /\ \E p \in Range(MapValues(photos)) : WithinAWeek(p, Val(call).today))
        => (IsSome(Val(ret)) /\ Val(Val(ret)).id = <<"nearby-days">>)

\* ------------------------------------------------------------------------
\* Story batches over the index a cold scan builds
\* ------------------------------------------------------------------------
\* the largest count asked of generateMultipleStories
MaxCount == 4

\* the image files of the corpus of the batch specification: a.jpg, T/b.jpg
SFiles == <<"fa", "fb">>

\* "now" of the process that builds the batch
SDates == {DateOf(2024, 5, 8, 12), DateOf(2024, 5, 1, 9), DateOf(2022, 5, 8, 0)}

SInit ==
    /\ \E content \in [Range(SFiles) -> QContents] :
        LET ix == ColdIndex(RootAbs, SFiles, content, Index(<<>>, <<>>, <<>>, <<>>))
        IN /\ fs = [f \in FileEntries |->
                       IF f \in Range(SFiles)
                       THEN [present |-> TRUE, mtime |-> 1, content |-> content[f]] ELSE Absent]
           /\ photos = ix.photos
           /\ people = ix.people
           /\ locations = ix.locations
           /\ cachedMtimes = ix.cachedMtimes
           /\ albums = updateAlbum(<<>>, ix.photos, EntryName("dT"), join(RootAbs, EntryName("dT")))
           /\ snapshot = Some(saveCache(RootAbs, ix.photos, ix.cachedMtimes))
           /\ seen = {QPath(RootAbs, f) : f \in Range(SFiles)}
    /\ photosRoot = RootAbs
    /\ indexed = TRUE
    /\ pc = "idle"
    /\ stack = <<>>
    /\ scanStats = [total |-> Len(SFiles), cached |-> 0, scanned |-> Len(SFiles)]
    /\ last = [NoStep EXCEPT !.op = "saveCache", !.load = "nofile", !.saved = TRUE]
    /\ startSummary = None
    /\ dirtyPrev = FALSE
    /\ dirtyCur = FALSE
    /\ budget = [scans |-> 1, env |-> 0, restarts |-> 0, faults |-> 0]
    /\ call = None
    /\ ret = None
    /\ ServerDown

\* a caller asks for a batch of count stories at the instant now; the index
\* is not changed by the call, so one call per behaviour covers every call
StoryBatch ==
    /\ pc = "idle"
    /\ ~IsSome(call)
    /\ \E now \in SDates, count \in 0..MaxCount :
        \E batch \in generateMultipleStories(Index(photos, people, locations, cachedMtimes),
                                             now, count) :
            /\ call' = Some([op |-> "generateMultipleStories", count |-> count, now |-> now])
            /\ ret' = Some(batch)
    /\ UNCHANGED <<fs, snapshot, scannerVars, ghostVars, budget, serverVars>>

SNext == StoryBatch

StorySpec == SInit /\ [][SNext]_vars

\* ret is a batch that generateMultipleStories returned
BatchReturned == IsSome(call) /\ Val(call).op = "generateMultipleStories"

\* number of stories of the batch that have the type
CountOfType(batch, type) == Cardinality({i \in 1..Len(batch) : batch[i].type = type})

C13_AtMostCount ==
    BatchReturned => Len(Val(ret)) <= Val(call).count

\* the story came from the exact-day path of generateYearsAgoStory
ExactDayStory ==
    /\ Called("generateYearsAgoStory")
    /\ IsSome(Val(ret))
    /\ Head(Val(Val(ret)).id) = "years-ago"

\* C11: a story of the exact-day path reports yearsAgo = year(D) - Y >= 1 for
\* a capture year Y that has a photo on D's month and day, and every member
\* photo of the story was captured on D's month and day in the year Y.
C11_YearsAgoExactDay ==
    ExactDayStory =>
        LET today == Val(call).today
            story == Val(Val(ret))
        IN \E p \in Range(MapValues(photos)) :
              /\ OnSameDay(p, today)
              /\ LET Y == getFullYear(Val(p.takenAt))
                 IN /\ IsSome(story.metadata)
                    /\ Val(story.metadata).yearsAgo = getFullYear(today) - Y
                    /\ Val(story.metadata).yearsAgo >= 1
                    /\ \A q \in Range(story.photos) :
                          /\ q \in Range(MapValues(photos))
                          /\ OnSameDay(q, today)
                          /\ getFullYear(Val(q.takenAt)) = Y

\* a story of two years ago, from an index that also has a photo taken on
\* the same month and day one year ago
C11_Witness ==
    /\ ExactDayStory
    /\ Val(Val(Val(ret)).metadata).yearsAgo = 2
    /\ Len(Val(Val(ret)).photos) = 1
    /\ \E p \in Range(MapValues(photos)) :
          OnSameDay(p, Val(call).today)
          /\ getFullYear(Val(p.takenAt)) = getFullYear(Val(call).today) - 1

\* ------------------------------------------------------------------------
\* generateMultipleStories, step by step
\* ------------------------------------------------------------------------
\* stories.push(story) (lines 446, 463, 472), moved to the front
Push_front(stories, story) == <<story>> \o stories

\* stories.push(story) (lines 446, 463, 472)
Push(stories, story) == Append(stories, story)

\* the body of the while loop that draws again after an absent result
FillStep_retry(stories, story) ==
    IF IsSome(story) THEN [stories |-> Push(stories, Val(story)), done |-> FALSE]
    ELSE [stories |-> stories, done |-> FALSE]

\* the body of the while loop (lines 470-475): push the story, or break
FillStep(stories, story) ==
    IF IsSome(story) THEN [stories |-> Push(stories, Val(story)), done |-> FALSE]
    ELSE [stories |-> stories, done |-> TRUE]

\* the ghost counter of consecutive absent results stops at this value
MaxAbsent == 2

\* the contents of a.jpg in the stepwise specification: taken on 2022-06-08
\* with A at L, or without a capture time and without a sidecar
BContentsA ==
    { [exif |-> ExifDated(Jun08of2022), sidecars |-> <<SideAL, SideMissing>>],
      [exif |-> ExifPlain, sidecars |-> <<SideMissing, SideMissing>>] }

\* the contents of T/b.jpg: taken on 2023-06-01 with A and B, or as a.jpg
BContentsB ==
    BContentsA \cup {[exif |-> ExifDated(Jun01of2023), sidecars |-> <<SideAB, SideMissing>>]}

\* the corpora an index is built from: none, a.jpg, or a.jpg and T/b.jpg
BCorpora ==
    {[files |-> <<>>, content |-> <<>>]}
        \cup {[files |-> <<"fa">>, content |-> [f \in {"fa"} |-> ca]] : ca \in BContentsA}
        \cup {[files |-> <<"fa", "fb">>,
               content |-> [f \in {"fa", "fb"} |-> IF f = "fa" THEN ca ELSE cb]]
              : ca \in BContentsA, cb \in BContentsB}

\* "now" of the call: noon of 2024-06-08 and of 2024-01-15
BDates == {DateOf(2024, 5, 8, 12), DateOf(2024, 0, 15, 12)}

BInit ==
    /\ \E corpus \in BCorpora :
        LET files == corpus.files
            content == corpus.content
        IN  LET ix == ColdIndex(RootAbs, files, content, Index(<<>>, <<>>, <<>>, <<>>))
            IN /\ fs = [f \in FileEntries |->
                           IF f \in Range(files)
                           THEN [present |-> TRUE, mtime |-> 1, content |-> content[f]]
                           ELSE Absent]
               /\ photos = ix.photos
               /\ people = ix.people
               /\ locations = ix.locations
               /\ cachedMtimes = ix.cachedMtimes
               /\ albums = updateAlbum(<<>>, ix.photos, EntryName("dT"),
                                       join(RootAbs, EntryName("dT")))
               /\ snapshot = Some(saveCache(RootAbs, ix.photos, ix.cachedMtimes))
               /\ seen = {QPath(RootAbs, f) : f \in Range(files)}
               /\ scanStats = [total |-> Len(files), cached |-> 0, scanned |-> Len(files)]
    /\ photosRoot = RootAbs
    /\ indexed = TRUE
    /\ pc = "idle"
    /\ stack = <<>>
    /\ last = [NoStep EXCEPT !.op = "saveCache", !.load = "nofile", !.saved = TRUE]
    /\ startSummary = None
    /\ dirtyPrev = FALSE
    /\ dirtyCur = FALSE
    /\ budget = [scans |-> 1, env |-> 0, restarts |-> 0, faults |-> 0]
    /\ call = None
    /\ ret = None
    /\ ServerDown

\* what a step of generateMultipleStories leaves alone
BatchFrame ==
    UNCHANGED <<fs, snapshot, photosRoot, photos, albums, people, locations, indexed,
                cachedMtimes, scanStats, stack, ghostVars, budget, serverVars>>

\* lines 440-458: the years-ago attempt, then the generators are shuffled.
\* call keeps the locals of the running call: stories, the generators the
\* for loop has not reached (order), the generators called so far (calls),
\* what the years-ago attempt returned (first) and the absent results the
\* while loop has seen in a row (absents)
BatchStart ==
    /\ pc = "idle"
    /\ ~IsSome(call)
    /\ \E now \in BDates, count \in 0..MaxCount, draw \in Draws(Len(Generators)) :
        \E yearsAgoStory \in generateYearsAgoStory(photos, now) :
            call' = Some([op |-> "generateMultipleStories", count |-> count, now |-> now,
                          stories |-> IF IsSome(yearsAgoStory)
                                      THEN Push(<<>>, Val(yearsAgoStory)) ELSE <<>>,
                          order |-> shuffleArray(Generators, draw),
                          calls |-> <<"yearsAgo">>,
                          first |-> yearsAgoStory,
                          absents |-> 0])
    /\ pc' = "generators"
    /\ ret' = ret
    /\ BatchFrame

\* one iteration of the for loop (lines 458-466)
BatchGenerator ==
    /\ pc = "generators"
    /\ Val(call).order # <<>>
    /\ Len(Val(call).stories) < Val(call).count
    /\ LET kind == Head(Val(call).order)
       IN \E story \in RunGenerator(kind, Index(photos, people, locations, cachedMtimes),
                                    Val(call).now) :
            call' = Some([Val(call) EXCEPT
                            !.order = Tail(@),
                            !.calls = Append(@, kind),
                            !.stories = IF IsSome(story) /\ Val(story).type \notin TypesOf(@)
                                        THEN Push(@, Val(story)) ELSE @])
    /\ UNCHANGED <<pc, ret>>
    /\ BatchFrame

\* the for loop ends: no generator is left, or the break of line 459
BatchGeneratorsDone ==
    /\ pc = "generators"
    /\ Val(call).order = <<>> \/ Len(Val(call).stories) >= Val(call).count
    /\ pc' = "fill"
    /\ UNCHANGED <<call, ret>>
    /\ BatchFrame

\* one iteration of the while loop (lines 469-476); after the break the
\* call returns (line 478)
BatchFill ==
    /\ pc = "fill"
    /\ Len(Val(call).stories) < Val(call).count
    /\ \E story \in generateRandomStory(Index(photos, people, locations, cachedMtimes),
                                        Val(call).now) :
        LET step == FillStep(Val(call).stories, story)
        IN /\ call' = Some([Val(call) EXCEPT
                              !.stories = step.stories,
                              !.absents = IF IsSome(story) THEN 0
                                          ELSE IF @ < MaxAbsent THEN @ + 1 ELSE @])
           /\ pc' = IF step.done THEN "returned" ELSE "fill"
           /\ ret' = IF step.done THEN Some(step.stories) ELSE ret
    /\ BatchFrame

\* the while condition fails: return stories (line 478)
BatchReturn ==
    /\ pc = "fill"
    /\ Len(Val(call).stories) >= Val(call).count
    /\ pc' = "returned"
    /\ ret' = Some(Val(call).stories)
    /\ call' = call
    /\ BatchFrame

BNext ==
    \/ BatchStart
    \/ BatchGenerator
    \/ BatchGeneratorsDone
    \/ BatchFill
    \/ BatchReturn

BatchSpec == BInit /\ [][BNext]_vars

\* the call runs to completion once it has started: nothing else runs in
\* the process while the synchronous function executes
BatchLiveSpec == BatchSpec /\ WF_vars(BNext)

\* the running or finished call
Batch == Val(call)

\* C28: generateMultipleStories calls the years-ago generator before any
\* other generator, and whenever that call yields a story, the story is
\* element 0 of the returned batch.
C28_YearsAgoFirst ==
    IsSome(call) =>
        /\ Batch.calls[1] = "yearsAgo"
        /\ \A i \in 2..Len(Batch.calls) : Batch.calls[i] \in Range(Generators)
        /\ (pc = "returned" /\ IsSome(Batch.first)) =>
              /\ Len(Val(ret)) >= 1
              /\ Val(ret)[1] = Val(Batch.first)

\* a batch of four stories whose first is the story of the years-ago
\* attempt, returned after three other generators were called
C28_Witness ==
    /\ pc = "returned"
    /\ IsSome(Batch.first)
    /\ Len(Batch.calls) = 4
    /\ Len(Val(ret)) = 4
    /\ Val(ret)[1] = Val(Batch.first)
    /\ Val(ret)[1].type = "years_ago"

\* C29: the fill phase keeps drawing after a single absent result of
\* generateRandomStory; a batch shorter than count is returned only after
\* two absent results in a row.
C29_StopsAfterTwoAbsent ==
    (pc = "returned" /\ Len(Val(ret)) < Batch.count) => Batch.absents >= 2

\* C30: generateMultipleStories(count) returns on every index, the empty
\* one included, and every iteration of the fill phase appends one story or
\* ends the loop.
C30_Terminates ==
    /\ [][pc = "fill" =>
            \/ pc' = "returned"
            \/ (pc' = "fill" /\ Len(Val(call').stories) = Len(Val(call).stories) + 1)]_vars
    /\ <>(pc = "returned")

\* the call returned one story on the empty index, for the largest count,
\* after the fill phase drew no story
C30_Witness ==
    /\ pc = "returned"
    /\ photos = <<>>
    /\ Batch.count = MaxCount
    /\ Batch.absents = 1
    /\ Len(Val(ret)) = 1

\* ------------------------------------------------------------------------
\* The server process (part_000): startup, timer, request handlers
\* ------------------------------------------------------------------------
\* the server asks for batches of 10 stories (lines 21, 26, 110, 207); the
\* model asks for batches of BatchSize
BatchSize == 2

\* "now" of the server process
ServerNow == DateOf(2024, 5, 8, 12)

\* the batches generateMultipleStories(BatchSize) can return on the index
NewBatches ==
    generateMultipleStories(Index(photos, people, locations, cachedMtimes), ServerNow, BatchSize)

\* scan() is between its first and its last await
Scanning == pc \in {"walk", "save"}

Observe(op, stories) ==
    Some([op |-> op, stories |-> stories, complete |-> lastBatch, total |-> Len(photos),
          scanning |-> Scanning])

\* the process starts: a.jpg (taken 2022-06-08, face A, place L) and T/b.jpg
\* (faces A and B), no snapshot; the operations of this run do not fail
SrvInit ==
    /\ fs = [f \in FileEntries |->
                IF f \notin FileKeys THEN Absent
                ELSE [present |-> TRUE, mtime |-> 1,
                      content |-> IF f = "fa"
                                  THEN [exif |-> ExifDated(Jun08of2022),
                                        sidecars |-> <<SideAL, SideMissing>>]
                                  ELSE [exif |-> ExifPlain, sidecars |-> <<SideAB, SideMissing>>]]]
    /\ snapshot = None
    /\ Fresh(RootAbs)
    /\ last = NoStep
    /\ seen = {}
    /\ startSummary = None
    /\ dirtyPrev = FALSE
    /\ dirtyCur = FALSE
    /\ budget = [scans |-> 0, env |-> 0, restarts |-> 0, faults |-> MaxFaults]
    /\ call = None
    /\ ret = None
    /\ ServerDown

\* line 17: await scanner.scan(); nothing else of the process runs yet
StartupScan ==
    /\ ~server.up
    /\ pc = "boot"
    /\ ScanStart

\* lines 17-63: the startup scan returns, the first batch is built, the
\* timer is set and the server starts
StartServer ==
    /\ ~server.up
    /\ ScanSaveBody
    /\ \E batch \in NewBatches :
        /\ cachedStories' = batch
        /\ lastBatch' = batch
    /\ server' = [server EXCEPT !.up = TRUE]
    /\ UNCHANGED observed

\* cachedStories with every story dropped
CachedWhileScanning_cleared(cached) == <<>>

\* cachedStories while /api/rescan awaits scan(): line 206 leaves it alone
CachedWhileScanning(cached) == cached

\* /api/rescan up to the first await of scan() (lines 205-206)
RescanRequest ==
    /\ server.up /\ ~server.rescan
    /\ pc = "idle"
    /\ ScanStartBody
    /\ server' = [server EXCEPT !.rescan = TRUE]
    /\ cachedStories' = CachedWhileScanning(cachedStories)
    /\ UNCHANGED <<lastBatch, observed>>

\* /api/rescan after scan() returned: the new batch and the response
\* (lines 207-211)
RescanFinish ==
    /\ server.rescan
    /\ ScanSaveBody
    /\ \E batch \in NewBatches :
        /\ cachedStories' = batch
        /\ lastBatch' = batch
    /\ server' = [server EXCEPT !.rescan = FALSE]
    /\ observed' = Observe("rescan", <<>>)

\* a callback or handler that replaces the batch in one synchronous run
Regenerate(op) ==
    /\ server.up
    /\ \E batch \in NewBatches :
        /\ cachedStories' = batch
        /\ lastBatch' = batch
    /\ observed' = Observe(op, <<>>)
    /\ UNCHANGED <<fs, snapshot, scannerVars, ghostVars, budget, call, ret, server>>

\* the hourly timer (lines 25-27)
TimerRefresh == Regenerate("timer")

\* /api/stories/refresh (lines 109-112)
RefreshRequest == Regenerate("refresh")

\* a handler that reads and changes nothing
ReadOnly(op, stories) ==
    /\ server.up
    /\ observed' = Observe(op, stories)
    /\ UNCHANGED <<fs, snapshot, scannerVars, ghostVars, budget, call, ret, cachedStories,
                   server, lastBatch>>

\* /api/stories (lines 95-97)
ReadStories == ReadOnly("stories", cachedStories)

\* /api/stats (lines 190-202): reads the index and cachedStories.length
ReadStats == ReadOnly("stats", cachedStories)

\* /api/photos (lines 70-77): reads the index
ReadPhotos == ReadOnly("photos", <<>>)

SrvNext ==
    \/ StartupScan
    \/ SkipEntry
    \/ EnterDirectory
    \/ ProcessPhoto
    \/ LeaveDirectory
    \/ StartServer
    \/ RescanRequest
    \/ RescanFinish
    \/ TimerRefresh
    \/ RefreshRequest
    \/ ReadStories
    \/ ReadStats
    \/ ReadPhotos

ServerSpec == SrvInit /\ [][SrvNext]_vars

\* the last observation was made by one of the operations
Observed(ops) == IsSome(observed) /\ Val(observed).op \in ops

\* C14: a reader of /api/stories or /api/stats, at any point between the
\* steps of the timer, of /api/stories/refresh and of /api/rescan, sees a
\* complete batch: the batch generateMultipleStories returned last.
C14_BatchReplacedWhole ==
    Observed({"stories", "stats"}) => Val(observed).stories = Val(observed).complete

\* /api/stories answered while a rescan was walking the corpus
C14_Witness ==
    /\ Observed({"stories"})
    /\ Val(observed).scanning
    /\ Len(Val(observed).stories) = BatchSize

\* C15: no request handler and no timer callback reads the index between the
\* start of a scan() and its return.
C15_NoReadDuringScan ==
    Observed({"stats", "photos", "timer", "refresh"}) => ~Val(observed).scanning

\* the photos of the index
IndexedPhotos == Range(MapValues(photos))

\* the sequence has no value twice
PairwiseDistinct(seq) == \A i, j \in 1..Len(seq) : seq[i] = seq[j] => i = j

\* C24: generatePeopleTogetherStory returns null when fewer than 2 people are
\* indexed; a story it returns lists 2 or 3 pairwise distinct names, and every
\* member photo shows all of them; the names are the sampled ones, or the
\* first two of three sampled names that no photo shows together.
C24_PeopleTogether ==
    Called("generatePeopleTogetherStory") =>
        LET sampled == Val(call).names
            result == Val(ret)
        IN /\ Len(people) < 2 => result = None
           /\ IsSome(result) =>
                LET names == Val(Val(result).metadata).people
                IN /\ Len(names) \in {2, 3}
                   /\ PairwiseDistinct(names)
                   /\ Val(result).photos # <<>>
                   /\ \A q \in Range(Val(result).photos) :
                         q \in IndexedPhotos /\ Range(names) \subseteq PeopleOf(q)
                   /\ \/ names = sampled
                      \/ /\ Len(sampled) = 3
                         /\ names = SubSeq(sampled, 1, 2)
                         /\ \A p \in IndexedPhotos : ~(Range(sampled) \subseteq PeopleOf(p))

\* a story of the first two of three sampled people, from an index in which
\* the last two of them share a photo as well
C24_Witness ==
    /\ Called("generatePeopleTogetherStory")
    /\ IsSome(Val(ret))
    /\ Len(Val(call).names) = 3
    /\ Val(Val(Val(ret)).metadata).people = SubSeq(Val(call).names, 1, 2)
    /\ \E p \in IndexedPhotos : {Val(call).names[2], Val(call).names[3]} \subseteq PeopleOf(p)

\* the months (0-11) of the season of a month: Mar-May, Jun-Aug, Sep-Nov,
\* Dec-Feb
SeasonOfMonth(month) ==
    CASE month \in {2, 3, 4} -> {2, 3, 4}
      [] month \in {5, 6, 7} -> {5, 6, 7}
      [] month \in {8, 9, 10} -> {8, 9, 10}
      [] month \in {11, 0, 1} -> {11, 0, 1}

\* the indexed photos of the season of the day, taken in an earlier year
SeasonEligible(today) ==
    {p \in IndexedPhotos :
        /\ IsSome(p.takenAt)
        /\ getMonth(Val(p.takenAt)) \in SeasonOfMonth(getMonth(today))
        /\ getFullYear(Val(p.takenAt)) < getFullYear(today)}

\* C25: every story of generateSeasonStory holds only photos of one calendar
\* year before the current one, taken in a month of the season of the current
\* month; it returns null exactly when no indexed photo is in such a month of
\* an earlier year.
C25_SeasonStory ==
    Called("generateSeasonStory") =>
        LET today == Val(call).today
            result == Val(ret)
        IN /\ (result = None) <=> (SeasonEligible(today) = {})
           /\ IsSome(result) =>
                /\ Val(result).photos # <<>>
                /\ \A q \in Range(Val(result).photos) : q \in SeasonEligible(today)
                /\ \A q, r \in Range(Val(result).photos) :
                      getFullYear(Val(q.takenAt)) = getFullYear(Val(r.takenAt))

\* a season story from an index that has photos of the season in two
\* earlier years
C25_Witness ==
    /\ Called("generateSeasonStory")
    /\ IsSome(Val(ret))
    /\ \E p, q \in SeasonEligible(Val(call).today) :
          getFullYear(Val(p.takenAt)) # getFullYear(Val(q.takenAt))

\* number of tickets in the pool that carry the name
Tickets(pool, name) == Cardinality({k \in 1..Len(pool) : pool[k] = name})

\* C26: generateLocationStory draws the location from a pool in which each
\* indexed location holds min(photoCount, 10) tickets; every member photo of
\* the story has the drawn location as its locationName, which is also
\* metadata.location; the result is not null when the drawn location has a
\* photo with that name.
C26_LocationStory ==
    Called("generateLocationStory") =>
        LET result == Val(ret)
        IN IF locations = <<>> THEN result = None
           ELSE LET drawn == Head(Val(call).names)
                    pool == Tail(Val(call).names)
                IN /\ \A j \in 1..Len(locations) :
                         Tickets(pool, locations[j].k) =
                             IF locations[j].v.photoCount < 10
                             THEN locations[j].v.photoCount ELSE 10
                   /\ \A k \in 1..Len(pool) : MapHas(locations, pool[k])
                   /\ drawn \in Range(pool)
                   /\ IsSome(result) =>
                         /\ Val(Val(result).metadata).location = drawn
                         /\ \A q \in Range(Val(result).photos) :
                               q \in IndexedPhotos /\ q.locationName = Some(drawn)
                   /\ (\E p \in IndexedPhotos : p.locationName = Some(drawn)) => IsSome(result)

\* a location story drawn from a pool of two locations, one of them with
\* more counted photos than the cap
C26_Witness ==
    /\ Called("generateLocationStory")
    /\ IsSome(Val(ret))
    /\ Len(locations) = 2
    /\ \E j \in 1..Len(locations) : locations[j].v.photoCount > 10
    /\ \E j \in 1..Len(locations) : locations[j].k # Head(Val(call).names)

\* the member limit of each story type
LimitOfType(type) ==
    CASE type \in {"years_ago", "random"} -> 20
      [] type \in {"people_together", "location"} -> 30
      [] type = "season" -> 25

\* a generator has returned a story
StoryReturned ==
    /\ IsSome(call)
    /\ Val(call).op \in {"generateYearsAgoStory", "generatePeopleTogetherStory",
                         "generateLocationStory", "generateSeasonStory",
                         "generateRandomPhotosStory"}
    /\ IsSome(Val(ret))

\* the candidate photos of the returned story, where the story tells them
CandidatesOf(story) ==
    CASE story.type = "random" -> IndexedPhotos
      [] story.type = "people_together" ->
             {p \in IndexedPhotos : Range(Val(story.metadata).people) \subseteq PeopleOf(p)}
      [] story.type = "location" ->
             {p \in IndexedPhotos : p.locationName = Some(Val(story.metadata).location)}
      [] story.type = "season" ->
             {p \in SeasonEligible(Val(call).today) :
                 getFullYear(Val(p.takenAt)) = getFullYear(Val(story.photos[1].takenAt))}
      [] story.type = "years_ago" -> IndexedPhotos

\* the selection is one without replacement from the candidates, up to the
\* limit
SelectionOf(members, candidates, limit) ==
    /\ Len(members) = (IF Cardinality(candidates) < limit THEN Cardinality(candidates) ELSE limit)
    /\ PairwiseDistinct(members)
    /\ Range(members) \subseteq candidates

\* what a returned story or a returned selection must look like
Selected ==
    /\ StoryReturned =>
          LET story == Val(Val(ret))
          IN /\ Len(story.photos) <= LimitOfType(story.type)
             /\ PairwiseDistinct(story.photos)
             /\ Range(story.photos) \subseteq CandidatesOf(story)
             /\ story.type # "years_ago" =>
                   SelectionOf(story.photos, CandidatesOf(story), LimitOfType(story.type))
    /\ Called("shuffleAndLimit") =>
          SelectionOf(Val(ret), IndexedPhotos, Val(call).today)

SideUnparsable == [state |-> "unparsable", face |-> None, geo |-> None, takenAt |-> None]

SideNullDoc == [state |-> "nullDoc", face |-> None, geo |-> None, takenAt |-> None]

SideBadThumbL ==
    [state |-> "badThumb", face |-> None,
     geo |-> Some([city |-> Some("L"), country |-> None, lat |-> Some(1), lon |-> Some(1)]),
     takenAt |-> None]

\* contents of one candidate file
MetaSidecars ==
    {SideMissing, SideUnparsable, SideNullDoc, SideBadThumbL, SideAL, SideAB, SideBM,
     SideNamelessL}

\* the photo extractSynologyMetadata receives from processPhoto (lines 181-191)
MetaPhotos ==
    {extractExifData([mtime |-> 1, exif |-> x], BasicPhoto(<<"i">>, <<"/", "a">>, None)) :
        x \in {ExifPlain, ExifDated(Jun08of2022)}}

MetaInit ==
    /\ Parked
    /\ Fresh(RootAbs)
    /\ \E first \in MetaSidecars, second \in MetaSidecars, photo \in MetaPhotos :
          call = Some([op |-> "extractSynologyMetadata",
                       sidecars |-> <<first, second>>, photo |-> photo])
    /\ ret = None
    /\ ServerDown

\* processPhoto awaits extractSynologyMetadata (line 191)
ExtractMetadata ==
    /\ IsSome(call) /\ ret = None
    /\ ret' = Some(extractSynologyMetadata([sidecars |-> Val(call).sidecars], Val(call).photo))
    /\ UNCHANGED <<fs, snapshot, scannerVars, ghostVars, budget, call, serverVars>>

MetaNext == ExtractMetadata

MetaSpec == MetaInit /\ [][MetaNext]_vars

\* the candidate file exists and parses as JSON
ExistsAndParses(meta) == meta.state \notin {"missing", "unparsable"}

\* extractSynologyMetadata has returned
Extracted == IsSome(call) /\ Val(call).op = "extractSynologyMetadata" /\ IsSome(ret)

WInit ==
    /\ \E content \in [{"fb", "fc"} -> QContents] :
        fs = [f \in FileEntries |->
                 [present |-> TRUE, mtime |-> 1,
                  content |-> IF f \in DOMAIN content THEN content[f]
                              ELSE [exif |-> ExifPlain, sidecars |-> <<SideMissing, SideMissing>>]]]
    /\ snapshot = None
    /\ Fresh(RootAbs)
    /\ last = NoStep
    /\ seen = {}
    /\ startSummary = None
    /\ dirtyPrev = FALSE
    /\ dirtyCur = FALSE
    /\ budget = [scans |-> 0, env |-> 0, restarts |-> 0, faults |-> 0]
    /\ call = None
    /\ ret = None
    /\ ServerDown

WNext ==
    \/ ScanStart
    \/ SkipEntry
    \/ EnterDirectory
    \/ IgnoreEntry
    \/ ProcessPhoto
    \/ LeaveDirectory
    \/ ScanSave

WalkSpec == WInit /\ [][WNext]_vars

\* positions in the index of the photos whose album is the name
AlbumMembers(name) == {i \in 1..Len(photos) : photos[i].v.album = Some(name)}
DatedMembers(name) == {i \in AlbumMembers(name) : IsSome(photos[i].v.takenAt)}

\* the album summary that scanDirectory has just written
WrittenAlbum == Val(MapGet(albums, Val(last.album)))

\* C16: after updateAlbum(name, path) wrote a summary, its photoCount is the
\* number of indexed photos whose album is name, and its dateRange is the
\* earliest and the latest capture time of the members that have one, absent
\* when no member has one.
C16_AlbumSummary ==
    (last.op = "leave" /\ last.albumWritten) =>
        LET name == Val(last.album)
            dated == DatedMembers(name)
            range == WrittenAlbum.dateRange
        IN /\ MapHas(albums, name)
           /\ WrittenAlbum.photoCount = Cardinality(AlbumMembers(name))
           /\ IF dated = {} THEN range = None
              ELSE /\ IsSome(range)
                   /\ \A i \in dated : /\ Val(range).start <= Val(photos[i].v.takenAt)
                                        /\ Val(photos[i].v.takenAt) <= Val(range).end
                   /\ \E i \in dated : Val(range).start = Val(photos[i].v.takenAt)
                   /\ \E i \in dated : Val(range).end = Val(photos[i].v.takenAt)

\* a summary was written for an album of two photos taken at different times
C16_Witness ==
    /\ last.op = "leave" /\ last.albumWritten
    /\ Cardinality(AlbumMembers(Val(last.album))) = 2
    /\ Cardinality(DatedMembers(Val(last.album))) = 2
    /\ IsSome(WrittenAlbum.dateRange)
    /\ Val(WrittenAlbum.dateRange).start < Val(WrittenAlbum.dateRange).end

\* the image files below a directory of the corpus
FilesUnder(d) == IF d = "root" THEN AllFiles ELSE Range(DirEntries(d)) \cap AllFiles

\* the image files outside the subtree of every directory the scan could
\* not list
OutsideFailed == {f \in AllFiles : fs[f].present /\ \A d \in last.failedDirs : f \notin FilesUnder(d)}

\* C20: when readdir fails for a directory D, the scan that finishes its walk
\* has called processPhoto on every image file outside D's subtree, sets
\* indexed, and goes on to saveCache, which writes the snapshot of the index
\* unless the write itself fails.
C20_ReaddirFailureIsLocal ==
    (last.failedDirs # {} /\ pc \in {"save", "idle"}) =>
        /\ indexed
        /\ \A f \in OutsideFailed :
              /\ QPath(photosRoot, f) \in seen
              /\ MapHas(photos, generateId(photosRoot, QPath(photosRoot, f)))
        /\ pc = "idle" =>
              /\ last.op = "saveCache"
              /\ last.saved => snapshot = Some(saveCache(photosRoot, photos, cachedMtimes))

\* the listing of T failed and the scan went on to d.jpg and the snapshot
C20_Witness ==
    /\ last.failedDirs = {"dT"}
    /\ pc = "idle" /\ last.op = "saveCache" /\ last.saved
    /\ QPath(photosRoot, "fd") \in seen
    /\ QPath(photosRoot, "fb") \notin seen

\* the directories strictly between the corpus root and the entry
RECURSIVE DirsAbove(_)
DirsAbove(e) ==
    IF ParentOf(e) = "root" THEN {} ELSE {ParentOf(e)} \cup DirsAbove(ParentOf(e))

\* the name is "@eaDir" or starts with "."
SidecarOrDotName(name) == name = <<"@", "e", "a", "D", "i", "r">> \/ Head(name) = "."

\* the entries the walk is to turn into Photo records
WalkTarget(e) ==
    /\ IsFileEntry(e)
    /\ toLowerCase(extname(EntryName(e))) \in PHOTO_EXTENSIONS
    /\ ~SidecarOrDotName(EntryName(e))
    /\ \A d \in DirsAbove(e) : ~SidecarOrDotName(EntryName(d))

TargetPaths == {QPath(photosRoot, e) : e \in {f \in FileEntries : WalkTarget(f)}}

\* the ids of the indexed photos
IndexedIds == {photos[i].k : i \in 1..Len(photos)}

\* album names of the directories that hold a walk target
TargetAlbums == {Val(QAlbum(e)) : e \in {f \in FileEntries : WalkTarget(f) /\ IsSome(QAlbum(f))}}

\* the walk of the current scan is over and every listing succeeded
WalkComplete == pc \in {"save", "idle"} /\ indexed /\ last.op # "none" /\ last.failedDirs = {}

\* C21: the walk turns a directory entry into a Photo record exactly when it
\* is a regular file with an image extension (compared in lower case), whose
\* name is not "@eaDir" and does not start with ".", and which is not below a
\* skipped directory; videos, other files and everything under "@eaDir" or a
\* dot-directory get no Photo, Person, Location or Album entry.
C21_WalkTargets ==
    /\ LET targets == TargetPaths
       IN \A i \in 1..Len(photos) : photos[i].v.path \in targets
    /\ \A e \in FileEntries :
          toLowerCase(extname(EntryName(e))) \in VIDEO_EXTENSIONS =>
              LET videoPath == QPath(photosRoot, e)
              IN \A i \in 1..Len(photos) : photos[i].v.path # videoPath
    /\ \A j \in 1..Len(people) : people[j].v.coverPhoto \in IndexedIds
    /\ \A j \in 1..Len(locations) : Range(locations[j].v.photos) \subseteq IndexedIds
    /\ \A j \in 1..Len(albums) :
          albums[j].k \in TargetAlbums /\ albums[j].v.coverPhoto \in IndexedIds
    /\ WalkComplete =>
          \A e \in FileEntries :
              (WalkTarget(e) /\ fs[e].present) =>
                  LET targetPath == QPath(photosRoot, e)
                  IN \E i \in 1..Len(photos) : photos[i].v.path = targetPath

\* a walk over the whole corpus (with its video, text file, hidden image,
\* symbolic link, dot-directory and thumbnail) has indexed U.JPG
C21_Witness ==
    /\ WalkComplete
    /\ \A e \in FileEntries : fs[e].present
    /\ \E i \in 1..Len(photos) : photos[i].v.path = QPath(photosRoot, "fu")
    /\ Len(photos) = 5

\* the image files directly inside a directory
ImagesIn(d) == {f \in AllFiles : ParentOf(f) = d /\ fs[f].present}

\* C22: during a scan the album summary of a directory is written at most
\* once, and only after processPhoto returned for every recognised image
\* file directly inside it; a directory whose listing failed and the corpus
\* root get no album summary.
C22_AlbumSummaryAfterChildren ==
    /\ \A i, j \in 1..Len(last.written) : last.written[i] = last.written[j] => i = j
    /\ \A d \in Range(last.written) :
          /\ d # "root"
          /\ d \notin last.failedDirs
          /\ \A f \in ImagesIn(d) : QPath(photosRoot, f) \in seen

\* the summary of T was written after b.jpg and c.jpg were processed
C22_Witness ==
    /\ last.op = "leave" /\ last.albumWritten
    /\ last.written = <<"dT">>
    /\ ImagesIn("dT") = {"fb", "fc"}
    /\ {QPath(photosRoot, "fb"), QPath(photosRoot, "fc")} \subseteq seen

\* ------------------------------------------------------------------------
\* Properties of the scan engine
\* ------------------------------------------------------------------------
\* a scan of this scanner has completed and nothing is running
ScanDone == pc = "idle" /\ indexed

\* C1: a second scan() of the same scanner with no change of the corpus since
\* the first scan started (and no failing operation) leaves the photo ids, the
\* person counts and the location counts and member lists as they were.
C1_RescanIdempotent ==
    (ScanDone /\ IsSome(startSummary) /\ ~dirtyPrev /\ ~dirtyCur /\ budget.faults = 0)
        => Summary = Val(startSummary)

\* number of indexed photos whose people list contains the name
PhotosWithPerson(name) ==
    Cardinality({i \in 1..Len(photos) :
                    IsSome(photos[i].v.people) /\ name \in Range(Val(photos[i].v.people))})

\* C2: after any sequence of completed scans each Person's photoCount is the
\* number of indexed photos whose people list contains the person's name.
C2_PersonCountExact ==
    ScanDone => \A i \in 1..Len(people) :
                    people[i].v.photoCount = PhotosWithPerson(people[i].k)

\* C3: after a completed scan the index, and the snapshot that scan wrote,
\* hold no photo of a file that the scan did not find in the corpus.
C3_DeletedFilesVanish ==
    ScanDone =>
        /\ \A i \in 1..Len(photos) : photos[i].v.path \in seen
        /\ (last.op = "saveCache" /\ last.saved)
              => \A i \in 1..Len(Val(snapshot).photos) : Val(snapshot).photos[i].v.path \in seen

\* C4: loadCache takes nothing from a snapshot whose version or root does not
\* match, and the walk that follows has no cache hit (full rebuild).
C4_MismatchFullRebuild ==
    last.load = "mismatch" => (~last.loadChanged /\ scanStats.cached = 0)

\* C5: processPhoto (with a readable file) skips extraction exactly when the
\* mtime map has an entry for the path, the entry equals the file's current
\* modification time and the index holds the id, for every mtime including 0.
C5_CacheHitExactly ==
    (last.op = "processPhoto" /\ last.statOk)
        => (last.hit <=> (last.hadEntry /\ last.sameMtime /\ last.hadId))

\* the ids in the member list of the location at position j
LocationMembers(j) == Range(locations[j].v.photos)

\* C17: every id in the member list of a Location identifies an indexed Photo
\* whose locationName is that location's name and which has both
\* coordinates, also after a photo was processed again with another or no
\* location.
C17_LocationMembersTagged ==
    \A j \in 1..Len(locations) : \A id \in LocationMembers(j) :
        /\ MapHas(photos, id)
        /\ Val(MapGet(photos, id)).locationName = Some(locations[j].k)
        /\ IsSome(Val(MapGet(photos, id)).latitude)
        /\ IsSome(Val(MapGet(photos, id)).longitude)

\* processPhoto has just returned through its cache-hit branch (lines 171-176)
CacheHitStep ==
    last'.op = "processPhoto" /\ last'.hit /\ scanStats'.total = scanStats.total + 1

\* C18: a processPhoto call that hits the cache leaves the photos, the people
\* and the locations as they were; it writes the modification time that was
\* already recorded for the path and adds one to the cached counter only.
C18_CacheHitChangesNothing ==
    [][CacheHitStep =>
          /\ photos' = photos /\ people' = people /\ locations' = locations
          /\ cachedMtimes' = cachedMtimes
          /\ scanStats'.cached = scanStats.cached + 1
          /\ scanStats'.scanned = scanStats.scanned]_vars

\* a cache hit on a photo of an index that holds people and locations
C18_Witness ==
    /\ last.op = "processPhoto" /\ last.hit
    /\ people # <<>> /\ locations # <<>>
    /\ scanStats.cached >= 1

\* number of indexed photos that have the location name and both coordinates
PhotosAtLocation(name) ==
    Cardinality({i \in 1..Len(photos) :
                    HasLocation(photos[i].v) /\ photos[i].v.locationName = Some(name)})

\* the person names and the location names that the indexed photos carry
NamesInPhotos ==
    UNION {Range(Val(photos[i].v.people)) : i \in {j \in 1..Len(photos) : IsSome(photos[j].v.people)}}
PlacesInPhotos ==
    {Val(photos[i].v.locationName) : i \in {j \in 1..Len(photos) : HasLocation(photos[j].v)}}

\* loadCache has just loaded a usable snapshot into an empty index
LoadedIntoEmpty == last.op = "loadCache" /\ last.load = "loaded" /\ last.emptyBefore

\* C19: after a valid snapshot was loaded into a scanner whose index was
\* empty, each Person's photoCount is the number of loaded photos that contain
\* the name and each Location's photoCount is the number of loaded photos
\* with that location name and coordinates, whatever the counts were in the
\* process that saved the snapshot.
C19_LoadCountsOncePerPhoto ==
    LoadedIntoEmpty =>
        /\ {people[j].k : j \in 1..Len(people)} = NamesInPhotos
        /\ \A j \in 1..Len(people) : people[j].v.photoCount = PhotosWithPerson(people[j].k)
        /\ {locations[j].k : j \in 1..Len(locations)} = PlacesInPhotos
        /\ \A j \in 1..Len(locations) :
              locations[j].v.photoCount = PhotosAtLocation(locations[j].k)

\* a snapshot with a person in two photos and a located photo was loaded into
\* the empty index of a restarted server
C19_Witness ==
    /\ LoadedIntoEmpty
    /\ \E j \in 1..Len(people) : people[j].v.photoCount = 2
    /\ locations # <<>>

\* ------------------------------------------------------------------------
\* Scans that start from a snapshot file in any condition
\* ------------------------------------------------------------------------
\* the corpus: a.jpg (taken 2022-06-08, face A, place L), T/b.jpg (faces A
\* and B, or unreadable metadata) and the text file n.txt
LContent ==
    [f \in FileKeys |->
        IF f = "fa" THEN [exif |-> ExifDated(Jun08of2022), sidecars |-> <<SideAL, SideMissing>>]
        ELSE [exif |-> ExifPlain, sidecars |-> <<SideAB, SideMissing>>]]

\* an image whose EXIF block cannot be read (ExifReader.load throws, line
\* 223) and whose sidecars are not JSON
ExifFailed == [ok |-> FALSE, date |-> None, lat |-> None, lon |-> None]
Unreadable == [exif |-> ExifFailed, sidecars |-> <<SideUnparsable, SideUnparsable>>]

\* the snapshot a complete scan of the corpus saves
SavedSnapshot ==
    LET ix == ColdIndex(RootAbs, <<"fa", "fb">>, LContent, Index(<<>>, <<>>, <<>>, <<>>))
    IN saveCache(RootAbs, ix.photos, ix.cachedMtimes)

\* the snapshot with a null value in front of its entry at position p (after
\* the last entry when p is one more than their number)
NullAt(cache, p) ==
    [cache EXCEPT !.photos = SubSeq(@, 1, p - 1) \o <<NullEntry(<<"n">>)>>
                                 \o SubSeq(@, p, Len(@))]

\* the cache file when the process starts: absent, not JSON, as saved, or as
\* saved with one null entry
LSnapshots ==
    {None, Some(Corrupt), Some(SavedSnapshot)}
        \cup {Some(NullAt(SavedSnapshot, p)) : p \in 1..(Len(SavedSnapshot.photos) + 1)}

LInit ==
    /\ \E cb \in {LContent["fb"], Unreadable} :
        fs = [f \in FileEntries |->
                 IF f = "fa" THEN [present |-> TRUE, mtime |-> 1, content |-> LContent[f]]
                 ELSE IF f = "fb" THEN [present |-> TRUE, mtime |-> 1, content |-> cb]
                 ELSE IF f = "fn" THEN [Absent EXCEPT !.present = TRUE]
                 ELSE Absent]
    /\ snapshot \in LSnapshots
    /\ Fresh(RootAbs)
    /\ last = NoStep
    /\ seen = {}
    /\ startSummary = None
    /\ dirtyPrev = FALSE
    /\ dirtyCur = FALSE
    /\ budget = [scans |-> 0, env |-> 0, restarts |-> 0, faults |-> 0]
    /\ call = None
    /\ ret = None
    /\ ServerDown

LNext ==
    \/ ScanStart
    \/ SkipEntry
    \/ EnterDirectory
    \/ IgnoreEntry
    \/ ProcessPhoto
    \/ LeaveDirectory
    \/ ScanSave

LoadSpec == LInit /\ [][LNext]_vars

\* C31: a failure of loadCache or saveCache does not end scan(), and after a
\* failed load the index and the mtime map hold nothing taken from the
\* snapshot: the walk of a new scanner starts cold and has no cache hit.
C31_FailedLoadTakesNothing ==
    last.load = "failed" =>
        /\ ~last.loadChanged
        /\ (last.op = "loadCache" /\ last.emptyBefore) =>
              (photos = <<>> /\ people = <<>> /\ locations = <<>> /\ cachedMtimes = <<>>)
        /\ budget.scans = 1 => scanStats.cached = 0

\* the walk of the current scan is over
WalkOver == pc \in {"save", "idle"} /\ indexed /\ last.op # "none"

\* the walk listed the directory of the entry and every directory above it
Reached(e) == ({"root", ParentOf(e)} \cup DirsAbove(e)) \cap last.failedDirs = {}

\* C32: when the walk of a scan is over, every recognised image file it
\* reached has a Photo record under its id that carries the id, the path, the
\* file name and the album of the file, whether or not reading its
\* modification time or its metadata failed, and whatever failed on the
\* entries before it.
C32_EveryImageIndexed ==
    WalkOver =>
        \A e \in FileEntries :
            (WalkTarget(e) /\ fs[e].present /\ Reached(e)) =>
                LET filePath == QPath(photosRoot, e)
                    id == generateId(photosRoot, filePath)
                IN /\ MapHas(photos, id)
                   /\ Val(MapGet(photos, id)).id = id
                   /\ Val(MapGet(photos, id)).path = filePath
                   /\ Val(MapGet(photos, id)).filename = EntryName(e)
                   /\ Val(MapGet(photos, id)).album = QAlbum(e)

\* a scan is over in which stat failed on a.jpg, the first entry of the
\* root, and T/b.jpg, whose metadata cannot be read, was indexed after it
C32_Witness ==
    /\ WalkOver
    /\ budget.scans = 1
    /\ budget.faults = 1
    /\ last.failedDirs = {}
    /\ fs["fb"].content = Unreadable
    /\ scanStats = [total |-> 2, cached |-> 0, scanned |-> 1]
    /\ MapHas(photos, generateId(photosRoot, QPath(photosRoot, "fa")))
    /\ MapHas(photos, generateId(photosRoot, QPath(photosRoot, "fb")))

\* ------------------------------------------------------------------------
\* Albums by id
\* ------------------------------------------------------------------------
\* C33: for every album A that getAllAlbums() returns, getAlbum(A.id)
\* returns A.
C33_AlbumIdResolves ==
    Called("getAlbum") =>
        \A i \in 1..Len(albums) :
            albums[i].v.id = Val(call).names => Val(ret) = Some(albums[i].v)

\* ------------------------------------------------------------------------
\* The server process with /api/rescan requests that overlap
\* ------------------------------------------------------------------------
\* Bun.serve starts the handler of a request whenever the running code is
\* suspended at an await; the handler of /api/rescan (part_000 lines 205-212)
\* and scan() test nothing before they start. The call of scan() that runs
\* is in pc and stack; a call that waits at one of its awaits is kept in
\* call with its own position and its own scanDirectory calls.
Suspended == IsSome(call) /\ Val(call).op = "scan"

\* a second /api/rescan arrives while the first awaits inside scan(): its
\* scan() starts on the same PhotoScanner (lines 205-206, 31-38)
RescanOverlap ==
    /\ server.up /\ server.rescan
    /\ pc \in {"walk", "save"}
    /\ ~IsSome(call)
    /\ ScanBegin
    /\ call' = Some([op |-> "scan", pc |-> pc, stack |-> stack])
    /\ UNCHANGED serverVars

\* the awaited operation of the waiting call completes first: the event
\* loop continues the waiting call and the running one waits
Switch ==
    /\ Suspended
    /\ pc \in {"walk", "save"}
    /\ pc' = Val(call).pc
    /\ stack' = Val(call).stack
    /\ call' = Some([op |-> "scan", pc |-> pc, stack |-> stack])
    /\ UNCHANGED <<fs, snapshot, photosRoot, photos, albums, people, locations, indexed,
                   cachedMtimes, scanStats, ghostVars, budget, ret, serverVars>>

\* one of two overlapping requests ends: saveCache, the new batch and the
\* response (lines 42, 207-211); the other request still waits
RescanFinishOne ==
    /\ server.rescan
    /\ Suspended
    /\ ScanSaveBody
    /\ \E batch \in NewBatches :
        /\ cachedStories' = batch
        /\ lastBatch' = batch
    /\ observed' = Observe("rescan", <<>>)
    /\ server' = server

\* the event loop continues the request that is left
Resume ==
    /\ Suspended
    /\ pc = "idle"
    /\ pc' = Val(call).pc
    /\ stack' = Val(call).stack
    /\ call' = None
    /\ UNCHANGED <<fs, snapshot, photosRoot, photos, albums, people, locations, indexed,
                   cachedMtimes, scanStats, ghostVars, budget, ret, serverVars>>

\* the last of the running requests ends
RescanFinishLast == ~Suspended /\ RescanFinish

RNext ==
    \/ StartupScan
    \/ SkipEntry
    \/ EnterDirectory
    \/ ProcessPhoto
    \/ LeaveDirectory
    \/ StartServer
    \/ RescanRequest
    \/ RescanOverlap
    \/ Switch
    \/ RescanFinishOne
    \/ Resume
    \/ RescanFinishLast
    \/ ReadStats

RescanSpec == SrvInit /\ [][RNext]_vars

\* the calls of scan() that have started and not returned
ScansInProgress ==
    (IF pc \in {"walk", "save"} THEN 1 ELSE 0) + (IF Suspended THEN 1 ELSE 0)

\* C34: at most one scan() is in progress on the shared PhotoScanner at any
\* time; a second /api/rescan that arrives while a scan waits at an await
\* starts no second walk on the same index.
C34_OneScanAtATime == ScansInProgress <= 1

\* ------------------------------------------------------------------------
\* A new process scans the corpus the process before it has scanned
\* ------------------------------------------------------------------------
\* a.jpg and T/b.jpg with any modification times from 0 (the epoch) on; no
\* snapshot yet; no operation of these runs fails and the corpus stays as
\* it is
FInit ==
    /\ \E m \in [FileKeys -> 0..MaxMtime] :
        fs = [f \in FileEntries |->
                 IF f \notin FileKeys THEN Absent
                 ELSE [present |-> TRUE, mtime |-> m[f], content |-> LContent[f]]]
    /\ snapshot = None
    /\ \E root \in Roots : Fresh(root)
    /\ last = NoStep
    /\ seen = {}
    /\ startSummary = None
    /\ dirtyPrev = FALSE
    /\ dirtyCur = FALSE
    /\ budget = [scans |-> 0, env |-> 0, restarts |-> 0, faults |-> MaxFaults]
    /\ call = None
    /\ ret = None
    /\ ServerDown

\* the process is started again with the same PHOTOS_DIR
RestartSameRoot == Restart /\ photosRoot' = photosRoot

FNext ==
    \/ ScanStart
    \/ SkipEntry
    \/ EnterDirectory
    \/ ProcessPhoto
    \/ LeaveDirectory
    \/ ScanSave
    \/ RestartSameRoot

FreshSpec == FInit /\ [][FNext]_vars

\* C35: after a scan has completed and saved its snapshot, a scan of the
\* unchanged corpus by a new PhotoScanner with the same root extracts
\* nothing again: every recognised image file is a cache hit.
C35_SecondScanAllHits ==
    (pc = "idle" /\ budget.restarts > 0 /\ last.op = "saveCache") =>
        (scanStats.scanned = 0 /\ scanStats.cached = scanStats.total)

\* ------------------------------------------------------------------------
\* Stories of earlier years
\* ------------------------------------------------------------------------
\* C36: when an indexed photo was taken on D's month and day in a year
\* before D's year, generateYearsAgoStory(D) returns a story, whatever other
\* years have photos on that month and day and whatever year is drawn.
C36_EarlierYearGivesStory ==
    (/\ Called("generateYearsAgoStory")
     /\ \E p \in Range(MapValues(photos)) :
           /\ OnSameDay(p, Val(call).today)
           /\ getFullYear(Val(p.takenAt)) < getFullYear(Val(call).today))
        => IsSome(Val(ret))

\* ------------------------------------------------------------------------
\* Season stories over photos of every season
\* ------------------------------------------------------------------------
\* capture times: January, April, July and October 2023, December 2022
SeasonShots ==
    {DateOf(2023, 0, 20, 10), DateOf(2023, 3, 5, 10), DateOf(2023, 6, 14, 10),
     DateOf(2023, 9, 3, 10), DateOf(2022, 11, 25, 10)}

SeasonContents ==
    {[exif |-> ExifDated(t), sidecars |-> <<SideMissing, SideMissing>>] : t \in SeasonShots}

\* the index a first scan builds from a.jpg and T/b.jpg
SeasonInit ==
    /\ \E content \in [Range(SFiles) -> SeasonContents] :
        LET ix == ColdIndex(RootAbs, SFiles, content, Index(<<>>, <<>>, <<>>, <<>>))
        IN /\ fs = [f \in FileEntries |->
                       IF f \in Range(SFiles)
                       THEN [present |-> TRUE, mtime |-> 1, content |-> content[f]] ELSE Absent]
           /\ photos = ix.photos
           /\ people = ix.people
           /\ locations = ix.locations
           /\ cachedMtimes = ix.cachedMtimes
           /\ albums = updateAlbum(<<>>, ix.photos, EntryName("dT"), join(RootAbs, EntryName("dT")))
           /\ snapshot = Some(saveCache(RootAbs, ix.photos, ix.cachedMtimes))
           /\ seen = {QPath(RootAbs, f) : f \in Range(SFiles)}
    /\ photosRoot = RootAbs
    /\ indexed = TRUE
    /\ pc = "idle"
    /\ stack = <<>>
    /\ scanStats = [total |-> Len(SFiles), cached |-> 0, scanned |-> Len(SFiles)]
    /\ last = [NoStep EXCEPT !.op = "saveCache", !.load = "nofile", !.saved = TRUE]
    /\ startSummary = None
    /\ dirtyPrev = FALSE
    /\ dirtyCur = FALSE
    /\ budget = [scans |-> 1, env |-> 0, restarts |-> 0, faults |-> 0]
    /\ call = None
    /\ ret = None
    /\ ServerDown

SeasonSpec == SeasonInit /\ [][StorySeason]_vars

\* C37: every story that carries metadata.dateRange has start <= end, in
\* each of the four seasons the current month can belong to, winter
\* (December, January, February) included.
C37_DateRangeOrdered ==
    (Called("generateSeasonStory") /\ IsSome(Val(ret))) =>
        LET dateRange == Val(Val(Val(ret)).metadata).dateRange
        IN dateRange.start <= dateRange.end

====
